---- MODULE Spec2Model ----
(***************************************************************************)
(* Model of BufferGeometryMutator (3TK): a triangle soup with a Neighbor   *)
(* array and a reverseIslands array that are built by findNeighbors and    *)
(* maintained incrementally by the mutating operations.                    *)
(*                                                                         *)
(* Conventions of the model                                                *)
(*  - A vertex is a triple of integers <<x, y, z>>.  positions is the      *)
(*    sequence of vertices, so the model's "position index" is the         *)
(*    JavaScript position index divided by 3 (the index the code itself    *)
(*    uses for this.neighbors).  A face is 3 consecutive vertices.         *)
(*  - JavaScript arrays are 0-based; they are kept as TLA+ sequences and   *)
(*    read/written through At / Put, which reproduce reading past the end  *)
(*    (undefined) and writing past the end (the array grows, holes are     *)
(*    undefined).                                                          *)
(*  - null is Null, undefined is Undefined; Number.isInteger is IsInteger. *)
(*  - Floating point is modelled by exact arithmetic: angles are compared  *)
(*    through the exact cosine, intersections are exact points.            *)
(***************************************************************************)
EXTENDS Integers, Sequences, FiniteSets, TLC

VARIABLES positions, neighbors, reverseIslands, built, lastOp, pre, ret, opCount,
          loop

vars == <<positions, neighbors, reverseIslands, built, lastOp, pre, ret, opCount, loop>>

\* ------------------------------------------------------------------
\* JavaScript values and arrays
\* ------------------------------------------------------------------
Null == -1
Undefined == -2

IsInteger(x) == x >= 0

\* null converts to 0 in arithmetic (null + 3 is 3).
ToNum(x) == IF x = Null THEN 0 ELSE x

At(arr, i) == IF i >= 0 /\ i < Len(arr) THEN arr[i + 1] ELSE Undefined

Put(arr, i, v) ==
    IF i < Len(arr) THEN [arr EXCEPT ![i + 1] = v]
    ELSE arr \o [k \in 1..(i - Len(arr)) |-> Undefined] \o <<v>>

Range0(n) == [k \in 1..n |-> k - 1]

SeqRemove(s, x) == SelectSeq(s, LAMBDA y : y # x)

InSeq(x, s) == \E k \in 1..Len(s) : s[k] = x

\* The concatenation of a sequence of sequences.
RECURSIVE Flatten(_)
Flatten(faces) == IF faces = <<>> THEN <<>> ELSE Head(faces) \o Flatten(Tail(faces))

\* for (i = lo; i <= hi; i++) st = Body(st, i).  The range is halved and the
\* first half is computed before the second half is entered (the test
\* left = left only fixes that order of evaluation), which keeps the depth of
\* the evaluation logarithmic in the length of the loop.
RECURSIVE ForRange(_, _, _, _)
ForRange(Body(_, _), st, lo, hi) ==
    IF lo > hi THEN st
    ELSE IF lo = hi THEN Body(st, lo)
    ELSE LET left == ForRange(Body, st, lo, (lo + hi) \div 2)
         IN  IF left = left
             THEN ForRange(Body, left, ((lo + hi) \div 2) + 1, hi)
             ELSE left

\* for (x of seq) st = Body(st, x), over the elements seq had at the start.
ForEach(Body(_, _), st, seq) ==
    ForRange(LAMBDA s, i : Body(s, seq[i]), st, 1, Len(seq))

\* ------------------------------------------------------------------
\* Vectors (THREE.Vector3 with exact integer coordinates)
\* ------------------------------------------------------------------
VSub(a, b) == <<a[1] - b[1], a[2] - b[2], a[3] - b[3]>>
VDot(a, b) == a[1] * b[1] + a[2] * b[2] + a[3] * b[3]
VCross(a, b) == <<a[2] * b[3] - a[3] * b[2],
                  a[3] * b[1] - a[1] * b[3],
                  a[1] * b[2] - a[2] * b[1]>>
VZero == <<0, 0, 0>>

\* Triangle.normal before normalisation: (c - b) x (a - b).
TriNormal(a, b, c) == VCross(VSub(c, b), VSub(a, b))

\* ------------------------------------------------------------------
\* Index arithmetic of BufferGeometryMutator
\* ------------------------------------------------------------------
positionFromFace(faceIndex) == 3 * faceIndex

faceFromPosition(positionIndex) == positionIndex \div 3

edgeFromPosition(positionIndex) == positionIndex % 3

positionFromFaceEdge(faceIndex, edgeIndex) == positionFromFace(faceIndex) + edgeIndex

otherPositionInFace(posIndex, direction) ==
    LET p == ToNum(posIndex)
        faceDifference == faceFromPosition(p + direction) - faceFromPosition(p)
    IN  p + direction - positionFromFace(faceDifference)

nextPositionInFace(posIndex) == otherPositionInFace(posIndex, 1)

previousPositionInFace(posIndex) == otherPositionInFace(posIndex, -1)

positionsFromFace(faceIndex, vertexIndex) ==
    LET p1 == positionFromFaceEdge(faceIndex, vertexIndex)
        p2 == nextPositionInFace(p1)
        p3 == nextPositionInFace(p2)
    IN  <<p1, p2, p3>>

FaceCount(pos) == Len(pos) \div 3

equalTrios(pos, pos1, pos2) == At(pos, pos1) = At(pos, pos2)

hashForTrio(pos, startIndex) ==
    LET v == At(pos, startIndex) IN v[1] + v[2] + v[3]

isFaceDegenerate(pos, faceIndex) ==
    \E edgeIndex \in 0..2 :
        LET currentPos == positionFromFaceEdge(faceIndex, edgeIndex)
        IN  equalTrios(pos, currentPos, nextPositionInFace(currentPos))

faceNormal(pos, faceIndex) ==
    LET p == positionsFromFace(faceIndex, 0)
    IN  TriNormal(At(pos, p[1]), At(pos, p[2]), At(pos, p[3]))

getNeighborPosition(nbrs, position) == At(nbrs, position)

\* ------------------------------------------------------------------
\* findNeighbors
\* ------------------------------------------------------------------
\* 1/EPSILON^2 for EPSILON = 0.001: an angle is within EPSILON of pi iff
\* sin^2 of it is below EPSILON^2 (and its cosine is negative).
EpsilonInvSq == 1000000

\* vertexPositionMap().get(hashForTrio(posIndex)): the positions with the same
\* hash, in increasing order.
vertexPosBucket(pos, key) ==
    SelectSeq(Range0(Len(pos)), LAMBDA i : hashForTrio(pos, i) = key)

\* A candidate test that does not look at whether the other face is
\* degenerate.
isCandidateAnyFace(pos, posIndex, newPosIndex) ==
    /\ equalTrios(pos, newPosIndex, posIndex)
    /\ equalTrios(pos, nextPositionInFace(posIndex), previousPositionInFace(newPosIndex))

\* Is the edge that ends at newPosIndex a possible neighbor of the edge that
\* starts at posIndex?
isCandidate(pos, posIndex, newPosIndex) ==
    /\ equalTrios(pos, newPosIndex, posIndex)
    /\ equalTrios(pos, nextPositionInFace(posIndex), previousPositionInFace(newPosIndex))
    /\ ~isFaceDegenerate(pos, faceFromPosition(newPosIndex))

\* The candidate generation of one edge: the keys of possibleNeighbors[edge]
\* in insertion order.
candidatesFrom(pos, posIndex, bucket) ==
    [k \in 1..Len(bucket) |-> previousPositionInFace(bucket[k])]

possibleNeighborsInit(pos, posIndex) ==
    IF isFaceDegenerate(pos, faceFromPosition(posIndex)) THEN <<>>
    ELSE candidatesFrom(pos, posIndex,
             SelectSeq(vertexPosBucket(pos, hashForTrio(pos, posIndex)),
                       LAMBDA newPosIndex : isCandidate(pos, posIndex, newPosIndex)))

unconnectedInit(pos) ==
    SelectSeq(Range0(3 * FaceCount(pos)),
              LAMBDA posIndex : ~isFaceDegenerate(pos, faceFromPosition(posIndex)))

\* The state of findNeighbors before its resolution loop (the faces array and
\* unconnectedEdges).  pn, nb are indexed by position, island and rank by face.
findNeighborsInit(pos) ==
    LET n == FaceCount(pos) IN
    [ pn     |-> [p \in 0..(3 * n - 1) |-> possibleNeighborsInit(pos, p)],
      nb     |-> [p \in 0..(3 * n - 1) |-> Null],
      island |-> [f \in 0..(n - 1) |-> IF isFaceDegenerate(pos, f) THEN Null ELSE f],
      rank   |-> [f \in 0..(n - 1) |-> IF isFaceDegenerate(pos, f) THEN Null ELSE 0],
      un     |-> unconnectedInit(pos),
      foundOne |-> FALSE,
      nonManifold |-> FALSE ]

\* The root of a face.  The code also compresses the path, which changes
\* neither the roots nor the ranks.
RECURSIVE findIsland(_, _)
findIsland(island, faceIndex) ==
    IF island[faceIndex] # Null /\ island[faceIndex] # faceIndex
    THEN findIsland(island, island[faceIndex])
    ELSE island[faceIndex]

\* A faulty union step: the two islands stay apart.
joinRootsNever(st, root1, root2) == st

\* The union step of joinIslands, on the two roots.
joinRoots(st, root1, root2) ==
    IF root1 = root2 THEN st
    ELSE IF st.rank[root1] < st.rank[root2]
         THEN [st EXCEPT !.island[root1] = root2]
    ELSE IF st.rank[root2] < st.rank[root1]
         THEN [st EXCEPT !.island[root2] = root1]
    ELSE [st EXCEPT !.island[root2] = root1, !.rank[root1] = @ + 1]

joinIslands(st, face1, face2) ==
    joinRoots(st, findIsland(st.island, face1), findIsland(st.island, face2))

\* A faulty setNeighbor: posIndex1 stays a possible neighbor of other edges.
setNeighborKeep(st, posIndex1, posIndex2) ==
    [st EXCEPT !.pn[posIndex1] = <<>>, !.nb[posIndex1] = posIndex2]

setNeighbor(st, posIndex1, posIndex2) ==
    LET mine == st.pn[posIndex1] IN
    [st EXCEPT
       !.pn = [p \in DOMAIN st.pn |->
                 IF p = posIndex1 THEN <<>>
                 ELSE IF InSeq(p, mine) THEN SeqRemove(st.pn[p], posIndex1)
                 ELSE st.pn[p]],
       !.nb[posIndex1] = posIndex2]

\* A faulty connectEdge: only the first of the two setNeighbor calls is made.
connectEdgeOneWay(st, posIndex1, posIndex2) ==
    LET s1 == setNeighbor(st, posIndex1, posIndex2)
        s3 == joinIslands(s1, faceFromPosition(posIndex1), faceFromPosition(posIndex2))
    IN  [s3 EXCEPT !.un = SeqRemove(SeqRemove(@, posIndex1), posIndex2),
                   !.foundOne = TRUE]

connectEdge(st, posIndex1, posIndex2) ==
    LET s1 == setNeighbor(st, posIndex1, posIndex2)
        s2 == setNeighbor(s1, posIndex2, posIndex1)
        s3 == joinIslands(s2, faceFromPosition(posIndex1), faceFromPosition(posIndex2))
    IN  [s3 EXCEPT !.un = SeqRemove(SeqRemove(@, posIndex1), posIndex2),
                   !.foundOne = TRUE]

\* Step (a), for one open edge: connect it if it has exactly one candidate.
\* An edge deleted from unconnectedEdges before its turn is skipped.
connectSingle(st, posIndex) ==
    IF /\ InSeq(posIndex, st.un)
       /\ st.nb[posIndex] = Null
       /\ Len(st.pn[posIndex]) = 1
    THEN connectEdge(st, posIndex, st.pn[posIndex][1])
    ELSE st

\* Step (a): for (let posIndex of unconnectedEdges) ...
connectSingles(st, order) == ForEach(connectSingle, st, order)

\* A faulty search: the first candidate, whatever its island.
firstAnyIsland(st, cands, currentIsland) ==
    IF cands = <<>> THEN Null ELSE Head(cands)

\* A faulty removal: the worst pair stays.
removeCandidateNever(st, worst) == st

\* The first candidate of an edge that is already in the island of the edge.
RECURSIVE firstSameIsland(_, _, _)
firstSameIsland(st, cands, currentIsland) ==
    IF cands = <<>> THEN Null
    ELSE IF findIsland(st.island, faceFromPosition(Head(cands))) = currentIsland
         THEN Head(cands)
    ELSE firstSameIsland(st, Tail(cands), currentIsland)

connectIfFound(st, posIndex, c) ==
    IF c # Null THEN connectEdge(st, posIndex, c) ELSE st

\* Step (b), for one open edge: connect it to a candidate of its own island.
\* connectEdge clears the candidate map that is being iterated, which ends
\* that iteration.
connectWithinIsland(st, posIndex) ==
    IF InSeq(posIndex, st.un) /\ st.nb[posIndex] = Null
    THEN connectIfFound(st, posIndex,
             firstSameIsland(st, st.pn[posIndex],
                             findIsland(st.island, faceFromPosition(posIndex))))
    ELSE st

\* Step (b): for (let posIndex of unconnectedEdges) ...
connectSameIsland(st, order) == ForEach(connectWithinIsland, st, order)

\* facesAngle, kept exact: the angle is pi - side * phi, where phi in [0, pi]
\* is the angle between the two normals, cos(phi) = num / sqrt(den).  A zero
\* normal makes the angle NaN.
angleOfNormals(normal1, normal2, edge1) ==
    [ nan  |-> VDot(normal1, normal1) * VDot(normal2, normal2) = 0,
      side |-> IF VDot(VCross(normal1, normal2), edge1) > 0 THEN 1 ELSE -1,
      num  |-> VDot(normal1, normal2),
      den  |-> VDot(normal1, normal1) * VDot(normal2, normal2) ]

facesAngle(pos, posIndex1, posIndex2) ==
    angleOfNormals(faceNormal(pos, faceFromPosition(posIndex1)),
                   faceNormal(pos, faceFromPosition(posIndex2)),
                   VSub(At(pos, nextPositionInFace(posIndex1)), At(pos, posIndex1)))

\* cos(a) <= cos(b), for two angles that are not NaN.
CosLE(a, b) ==
    IF a.num <= 0 /\ b.num >= 0 THEN TRUE
    ELSE IF a.num >= 0 /\ b.num <= 0 THEN a.num = 0 /\ b.num = 0
    ELSE IF a.num > 0 THEN a.num * a.num * b.den <= b.num * b.num * a.den
    ELSE a.num * a.num * b.den >= b.num * b.num * a.den

IsPhiZero(a) == a.num > 0 /\ a.num * a.num = a.den

\* angle > worstAngle
AngleGT(a, w) ==
    /\ ~a.nan
    /\ ~w.nan
    /\ IF a.side = 1 /\ w.side = 1 THEN ~CosLE(a, w)
       ELSE IF a.side = -1 /\ w.side = -1 THEN ~CosLE(w, a)
       ELSE IF a.side = -1 THEN ~(IsPhiZero(a) /\ IsPhiZero(w))
       ELSE FALSE

\* Math.abs(Math.PI - angle) > Math.PI - EPSILON
NearFold(a) ==
    /\ ~a.nan
    /\ a.num < 0
    /\ LET gap == a.den - a.num * a.num
       IN  gap = 0 \/ (gap <= a.den \div EpsilonInvSq /\ gap * EpsilonInvSq < a.den)

\* A search that keeps the first candidate pair it meets.
isWorseFirst(angle, worst) == worst.none

\* Does this candidate replace the worst one found so far?
isWorse(angle, worst) ==
    \/ worst.none
    \/ NearFold(worst.angle) /\ ~angle.nan /\ CosLE(angle, worst.angle)
    \/ ~NearFold(worst.angle) /\ AngleGT(angle, worst.angle)

NoWorst == [none |-> TRUE, angle |-> [nan |-> TRUE, side |-> 1, num |-> 0, den |-> 0],
            pos |-> Null, otherPos |-> Null]

\* The worst candidate so far, after looking at one more candidate pair.
pickWorse(angle, worst, posIndex, otherPosIndex) ==
    IF isWorse(angle, worst)
    THEN [none |-> FALSE, angle |-> angle, pos |-> posIndex, otherPos |-> otherPosIndex]
    ELSE worst

\* The inner loop of step (c): the candidates of one open edge.
worstOfEdge(pos, st, posIndex, cands, worst) ==
    ForEach(LAMBDA w, otherPosIndex :
                pickWorse(facesAngle(pos, posIndex, nextPositionInFace(otherPosIndex)),
                          w, posIndex, otherPosIndex),
            worst, cands)

\* Step (c): the worst candidate pair over all open edges.
worstCandidate(pos, st, order, worst) ==
    ForEach(LAMBDA w, posIndex : worstOfEdge(pos, st, posIndex, st.pn[posIndex], w),
            worst, order)

removeCandidate(st, worst) ==
    [st EXCEPT !.pn[worst.pos] = SeqRemove(@, worst.otherPos),
               !.pn[worst.otherPos] = SeqRemove(@, worst.pos)]

\* The resolution loop: while (unconnectedEdges.size > 0) { ... }, one
\* operator per step of its body.
RECURSIVE resolve(_, _)
RECURSIVE resolveSameIsland(_, _)
RECURSIVE resolveWorst(_, _)
RECURSIVE resolveRemove(_, _, _)

\* step (c), after the search: give up, or drop the worst pair and go on
resolveRemove(pos, st, worst) ==
    IF worst.none
    THEN [st EXCEPT !.nonManifold = TRUE]   \* break
    ELSE resolve(pos, removeCandidate(st, worst))

\* after step (b)
resolveWorst(pos, b) ==
    IF b.foundOne THEN resolve(pos, b)
    ELSE resolveRemove(pos, b, worstCandidate(pos, b, b.un, NoWorst))

\* after step (a)
resolveSameIsland(pos, a) ==
    IF a.foundOne THEN resolve(pos, a)
    ELSE resolveWorst(pos, connectSameIsland(a, a.un))

resolve(pos, st) ==
    IF st.un = <<>> THEN st
    ELSE resolveSameIsland(pos, connectSingles([st EXCEPT !.foundOne = FALSE], st.un))

\* A faulty save: a face without a root is stored as an island of its own.
saveIslandOwnRoot(st, acc, faceIndex) ==
    Put(acc, faceIndex,
        IF IsInteger(findIsland(st.island, faceIndex))
        THEN findIsland(st.island, faceIndex) ELSE faceIndex)

\* "All done, now save the result": reverseIslands gets an entry only for a
\* face whose root is an integer.
saveIsland(st, acc, faceIndex) ==
    IF IsInteger(findIsland(st.island, faceIndex))
    THEN Put(acc, faceIndex, findIsland(st.island, faceIndex))
    ELSE acc

saveReverseIslands(st) ==
    ForRange(LAMBDA acc, faceIndex : saveIsland(st, acc, faceIndex),
             <<>>, 0, Cardinality(DOMAIN st.island) - 1)

saveNeighbors(st) == [k \in 1..(3 * Cardinality(DOMAIN st.island)) |-> st.nb[k - 1]]

\* A strict findNeighbors: it reports failure when its loop was left with
\* edges still open (the code returns true on every path).
saveResultStrict(st) ==
    [ neighbors      |-> saveNeighbors(st),
      reverseIslands |-> saveReverseIslands(st),
      nonManifold    |-> st.nonManifold,
      ret            |-> ~st.nonManifold ]

\* What findNeighbors() stores and returns, and whether its loop was left
\* with edges still open.
saveResult(st) ==
    [ neighbors      |-> saveNeighbors(st),
      reverseIslands |-> saveReverseIslands(st),
      nonManifold    |-> st.nonManifold,
      ret            |-> TRUE ]

findNeighbors(pos) == saveResult(resolve(pos, findNeighborsInit(pos)))

\* ------------------------------------------------------------------
\* splitFaces
\* ------------------------------------------------------------------
\* A plane is [normal, constant]; distanceToPoint is normal . point + constant.
distanceToPoint(plane, point) == VDot(plane.normal, point) + plane.constant

\* Plane.intersectLine on the segment start..end: "undefined", or where the
\* intersection point is: at the start, at the end, or strictly inside.
intersectLine(plane, start, end) ==
    LET denominator == VDot(plane.normal, VSub(end, start))
        d0 == distanceToPoint(plane, start)
        \* t = -d0 / denominator
        tNeg == (d0 > 0 /\ denominator > 0) \/ (d0 < 0 /\ denominator < 0)
        tAbove1 == IF denominator > 0 THEN -d0 > denominator ELSE -d0 < denominator
    IN  IF denominator = 0
        THEN (IF d0 = 0 THEN "start" ELSE "undefined")
        ELSE IF tNeg \/ tAbove1 THEN "undefined"
        ELSE IF d0 = 0 THEN "start"
        ELSE IF -d0 = denominator THEN "end"
        ELSE "inside"

Abs(x) == IF x < 0 THEN -x ELSE x

\* n / d for integers, exact when d divides n (rounded toward zero otherwise).
Quotient(n, d) ==
    IF (n < 0) = (d < 0) THEN Abs(n) \div Abs(d) ELSE -(Abs(n) \div Abs(d))

\* intersectionPoint.copy(v0).lerp(v1, alpha) with alpha = d0 / (d0 - d1).
lerpAtPlane(v0, v1, d0, d1) ==
    [k \in 1..3 |-> v0[k] + Quotient((v1[k] - v0[k]) * d0, d0 - d1)]

lerpIsExact(v0, v1, d0, d1) ==
    \A k \in 1..3 : Abs((v1[k] - v0[k]) * d0) % Abs(d0 - d1) = 0

\* A faulty choice of the vertex to move: always the first one, whether or
\* not the edge from the first to the third vertex crosses the plane.
vertexToMoveFirst(plane, vertices) == 0

\* Which vertex of face i is moved to the intersection (vertexToMove[i]).
vertexToMoveOf(plane, vertices) ==
    IF intersectLine(plane, vertices[1], vertices[3]) = "inside" THEN 1 ELSE 0

\* A faulty append: the new face of a side is pushed twice.
newFaceTwice(vertices, move, intersectionPoint) ==
    IF move = 0
    THEN <<vertices[3], vertices[1], intersectionPoint,
           vertices[3], vertices[1], intersectionPoint>>
    ELSE <<intersectionPoint, vertices[2], vertices[3],
           intersectionPoint, vertices[2], vertices[3]>>

\* The face appended for side i.
newFaceOf(vertices, move, intersectionPoint) ==
    IF move = 0 THEN <<vertices[3], vertices[1], intersectionPoint>>
    ELSE <<intersectionPoint, vertices[2], vertices[3]>>

\* "Add to this.neighbors": the entries pushed for the new face(s).
pushedNeighbors(nbrs, p, vertexToMove) ==
    LET newNeighborIndex == Len(nbrs)
        N(x) == At(nbrs, x)
    IN  IF Len(vertexToMove) = 1 /\ vertexToMove[1] = 1
        THEN <<Null, N(p[1][2]), p[1][2]>>
        ELSE IF Len(vertexToMove) = 1 /\ vertexToMove[1] = 0
        THEN <<N(p[1][3]), Null, p[1][3]>>
        ELSE IF vertexToMove[1] = 1 /\ vertexToMove[2] = 1
        THEN <<p[2][1], N(p[1][2]), p[1][2],
               p[1][1], N(p[2][2]), p[2][2]>>
        ELSE IF vertexToMove[1] = 0 /\ vertexToMove[2] = 0
        THEN <<N(p[1][3]), p[2][1], p[1][3],
               N(p[2][3]), p[1][1], p[2][3]>>
        ELSE IF vertexToMove[1] = 1 /\ vertexToMove[2] = 0
        THEN <<newNeighborIndex + 4, N(p[1][2]), p[1][2],
               N(p[2][3]), newNeighborIndex, p[2][3]>>
        ELSE <<N(p[1][3]), newNeighborIndex + 3, p[1][3],
               newNeighborIndex + 1, N(p[2][2]), p[2][2]>>

\* this.neighbors[this.neighbors[i]] = i, if neighbors[i] is an integer.
symmetricSlot(nbrs, i) ==
    IF IsInteger(At(nbrs, i)) THEN Put(nbrs, At(nbrs, i), i) ELSE nbrs

\* "Make the above assignments symmetric."
makeSymmetric(nbrs, start, end) == ForRange(symmetricSlot, nbrs, start, end - 1)

\* A faulty island update: each appended face becomes a root of its own
\* instead of taking the root of the face it was cut from.
copyIslandsFresh(ri, p, newFace, i) ==
    ForRange(LAMBDA r, k : Put(r, newFace + (k - 1), newFace + (k - 1)),
             ri, i, Len(p))

\* "Update the reverseIslands": new face i takes the root of the face
\* positions[i] it was cut from.
RECURSIVE copyIslands(_, _, _, _)
copyIslands(ri, p, newFace, i) ==
    IF i > Len(p) THEN ri
    ELSE copyIslands(Put(ri, newFace + (i - 1), At(ri, faceFromPosition(p[i][1]))),
                     p, newFace, i + 1)

\* positions[0] and, if there is a neighbor, positions[1].
sidesOf(p0, n) ==
    IF IsInteger(n)
    THEN << p0, <<n, nextPositionInFace(n), previousPositionInFace(n)>> >>
    ELSE << p0 >>

\* The lower part of the loop body of splitFaces: the edge crosses the plane.
\* One vertex of each side is moved to the intersection, one face per side
\* is appended, neighbors and reverseIslands are updated.
splitCrossing(st, p, vertices, intersectionPoint, vertexToMove, isExact) ==
    [ positions      |->
          [k \in 1..Len(st.positions) |->
              IF \E i \in 1..Len(p) : k - 1 = p[i][vertexToMove[i] + 1]
              THEN intersectionPoint ELSE st.positions[k]]
          \o Flatten([i \in 1..Len(p) |->
                         newFaceOf(vertices[i], vertexToMove[i], intersectionPoint)]),
      neighbors      |->
          makeSymmetric(st.neighbors \o pushedNeighbors(st.neighbors, p, vertexToMove),
                        Len(st.neighbors), Len(st.neighbors) + 3 * Len(p)),
      reverseIslands |->
          copyIslands(st.reverseIslands, p, faceFromPosition(Len(st.positions)), 1),
      splitPositions |-> st.splitPositions \cup {intersectionPoint},
      crossings      |-> st.crossings + 1,
      boundary       |-> st.boundary + (IF Len(p) = 1 THEN 1 ELSE 0),
      exact          |-> st.exact /\ isExact ]

\* The middle part: the distances of the two ends of the edge decide.
splitByDistance(plane, st, p, vertices, d0, d1) ==
    IF d0 = 0 \/ d1 = 0 \/ (d0 < 0 /\ d1 < 0) \/ (d0 > 0 /\ d1 > 0)
    THEN [st EXCEPT !.splitPositions =
             @ \cup (IF d0 = 0 THEN {vertices[1][1]} ELSE {})
               \cup (IF d1 = 0 THEN {vertices[1][2]} ELSE {})]
    ELSE splitCrossing(st, p, vertices,
                       lerpAtPlane(vertices[1][1], vertices[1][2], d0, d1),
                       [i \in 1..Len(p) |-> vertexToMoveOf(plane, vertices[i])],
                       lerpIsExact(vertices[1][1], vertices[1][2], d0, d1))

splitSides(plane, st, p, vertices) ==
    splitByDistance(plane, st, p, vertices,
                    distanceToPoint(plane, vertices[1][1]),
                    distanceToPoint(plane, vertices[1][2]))

\* vector3sFromPositions for each side.
splitVertices(plane, st, p) ==
    splitSides(plane, st, p,
               [i \in 1..Len(p) |-> [j \in 1..3 |-> At(st.positions, p[i][j])]])

\* The upper part: skip an edge with an end that was already split.
splitAt(plane, st, p0) ==
    IF \/ At(st.positions, p0[1]) \in st.splitPositions
       \/ At(st.positions, p0[2]) \in st.splitPositions
    THEN st
    ELSE splitVertices(plane, st, sidesOf(p0, getNeighborPosition(st.neighbors, p0[1])))

\* One iteration of the loop body of splitFaces, for one face-edge.  st holds
\* positions, neighbors, reverseIslands and splitPositions; crossings counts
\* the edges that were split, boundary those of them that had no neighbor.
splitEdge(plane, st, faceIndex, edgeIndex) ==
    splitAt(plane, st, positionsFromFace(faceIndex, edgeIndex))

\* for (faceIndex < faceCount) for (edgeIndex < 3): k runs over 0..3*faceCount-1.
splitLoop(plane, st, faceCount) ==
    ForRange(LAMBDA s, k : splitEdge(plane, s, k \div 3, k % 3),
             st, 0, 3 * faceCount - 1)

splitFaces(plane, pos, nbrs, ri) ==
    splitLoop(plane,
              [ positions |-> pos, neighbors |-> nbrs, reverseIslands |-> ri,
                splitPositions |-> {}, crossings |-> 0, boundary |-> 0, exact |-> TRUE ],
              FaceCount(pos))


\* ------------------------------------------------------------------
\* computeIslands
\* ------------------------------------------------------------------
joinNeighbor(nbrs, uf, position) ==
    IF IsInteger(getNeighborPosition(nbrs, position))
    THEN joinIslands(uf, faceFromPosition(position),
                     faceFromPosition(getNeighborPosition(nbrs, position)))
    ELSE uf

joinAllNeighbors(nbrs, uf) ==
    ForRange(LAMBDA u, position : joinNeighbor(nbrs, u, position),
             uf, 0, 3 * Cardinality(DOMAIN uf.island) - 1)

\* The reverseIslands that computeIslands() stores.
computeIslands(pos, nbrs) ==
    LET n == FaceCount(pos)
        uf == joinAllNeighbors(nbrs,
                  [island |-> [f \in 0..(n - 1) |-> f], rank |-> [f \in 0..(n - 1) |-> 0]])
    IN  [k \in 1..n |-> findIsland(uf.island, k - 1)]

\* ------------------------------------------------------------------
\* removeDegenerates, rotateEdge, deleteDegenerates
\* ------------------------------------------------------------------
\* A faulty removal: the neighbor across the edge is left as it is.
connectAcrossNot(nbrs, from, to) == nbrs

\* "Connect their neighbors", one direction: the neighbor across edge from
\* gets the neighbor across edge to.
connectAcross(nbrs, from, to) ==
    IF IsInteger(At(nbrs, from)) THEN Put(nbrs, At(nbrs, from), At(nbrs, to)) ELSE nbrs

removeZeroEdgeAt(m, faceIndex, position, edge1, edge2) ==
    IF equalTrios(m.positions, position, edge1)
    THEN [m EXCEPT !.neighbors = connectAcross(connectAcross(@, edge1, edge2), edge2, edge1),
                   !.reverseIslands = Put(@, faceIndex, Null),
                   !.removed = @ + 1]
    ELSE m

\* One edge of the inner loop of removeDegenerates0Angle.
removeZeroEdge(m, faceIndex, edgeIndex) ==
    removeZeroEdgeAt(m, faceIndex, positionFromFaceEdge(faceIndex, edgeIndex),
        nextPositionInFace(positionFromFaceEdge(faceIndex, edgeIndex)),
        nextPositionInFace(nextPositionInFace(positionFromFaceEdge(faceIndex, edgeIndex))))

\* The body of the loop of removeDegenerates0Angle, for one face.
removeZeroFace(m, faceIndex) ==
    IF ~IsInteger(At(m.reverseIslands, faceIndex)) THEN m
    ELSE removeZeroEdge(removeZeroEdge(removeZeroEdge(m, faceIndex, 0),
                                       faceIndex, 1), faceIndex, 2)

removeDegenerates0Angle(m, faces) == ForEach(removeZeroFace, m, faces)

\* "Make the above neighbor assignments symmetric."
symmetricAt(nbrs, slots) == ForEach(symmetricSlot, nbrs, slots)

\* "Adjust neighbors" of rotateEdge, one round of its loop: side is
\* positions[i], other is positions[1-i].
adjustNeighbors(nbrs, side, other) ==
    Put(Put(nbrs, side[3], At(nbrs, other[2])), other[2], side[2])

rotateNeighbors(nbrs, p0, p1) ==
    adjustNeighbors(adjustNeighbors(nbrs, p0, p1), p1, p0)

rotateSides(m, p0, p1) ==
    [m EXCEPT !.positions = Put(Put(@, p1[3], At(m.positions, p0[2])),
                                p0[3], At(m.positions, p1[2])),
              !.neighbors = symmetricAt(rotateNeighbors(@, p0, p1), p0 \o p1)]

triple(a0) == <<a0, nextPositionInFace(a0), previousPositionInFace(a0)>>

\* rotateEdge(position).  With no neighbor across the edge,
\* getNeighborPosition gives null and nextPositionInFace(null) is the second
\* vertex of face 0.
rotateEdge(m, position) ==
    rotateSides(m, triple(nextPositionInFace(position)),
        triple(nextPositionInFace(
            getNeighborPosition(m.neighbors,
                                previousPositionInFace(nextPositionInFace(position))))))

\* angle3(left, middle, right) as its exact cosine num / sqrt(den).
angle3(left, middle, right) ==
    LET a == VSub(left, middle)
        b == VSub(right, middle)
    IN  [num |-> VDot(a, b), den |-> VDot(a, a) * VDot(b, b)]

\* The index of the middle point of the largest angle of a face.
RECURSIVE largestAngleIndex(_, _, _, _)
largestAngleIndex(v, i, largestIndex, largestAngle) ==
    IF i > 2 THEN largestIndex
    ELSE LET angle == angle3(v[(i % 3) + 1], v[((i + 1) % 3) + 1], v[((i + 2) % 3) + 1])
             larger == largestAngle.none \/ ~CosLE(largestAngle.angle, angle)
         IN  IF larger
             THEN largestAngleIndex(v, i + 1, (i + 1) % 3, [none |-> FALSE, angle |-> angle])
             ELSE largestAngleIndex(v, i + 1, largestIndex, largestAngle)

\* this.rotateEdge(position); degeneratesRemoved++.  openRotated counts the
\* rotations of an edge that has no neighbor.
rotateCounted(m, position) ==
    [rotateEdge(m, position)
        EXCEPT !.removed = @ + 1,
               !.rotated = @ + 1,
               !.openRotated = @ + (IF IsInteger(getNeighborPosition(m.neighbors, position))
                                    THEN 0 ELSE 1)]

\* The body of the loop of removeDegenerates180Angle, for one face with the
\* vertices v.
rotateIfFlat(m, faceIndex, v) ==
    IF \/ ~IsInteger(At(m.reverseIslands, faceIndex))
       \/ isFaceDegenerate(m.positions, faceIndex)
       \/ TriNormal(v[1], v[2], v[3]) # VZero
    THEN m
    ELSE rotateCounted(m, positionFromFaceEdge(faceIndex,
             (largestAngleIndex(v, 0, 0,
                  [none |-> TRUE, angle |-> [num |-> 0, den |-> 1]]) + 1) % 3))

rotateFlatFace(m, faceIndex) ==
    rotateIfFlat(m, faceIndex,
                 [j \in 1..3 |-> At(m.positions, positionsFromFace(faceIndex, 0)[j])])

removeDegenerates180Angle(m, faces) == ForEach(rotateFlatFace, m, faces)

\* removeDegenerates(faces): both passes, repeated until neither removes anything.
\* fuel bounds the repetitions of the model; out is set when it runs out.
RECURSIVE removeDegeneratesLoop(_, _, _)

\* A faulty loop condition: the two passes are run once, whatever they removed.
removeDegeneratesOnePass(m, after, faces, fuel) == after

removeDegeneratesAgain(m, after, faces, fuel) ==
    IF after.removed = m.removed THEN after
    ELSE IF fuel = 0 THEN [after EXCEPT !.out = TRUE]
    ELSE removeDegeneratesLoop(after, faces, fuel - 1)

removeDegeneratesLoop(m, faces, fuel) ==
    removeDegeneratesAgain(m,
        removeDegenerates180Angle(removeDegenerates0Angle(m, faces), faces),
        faces, fuel)

\* A faulty renumbering: every kept face is taken to become face 0.
newFaceIndexFirst(ri, faceIndex) == 0

\* deleteDegenerates(): the compacted arrays.
\* newFaceIndex[faceIndex] = faceIndex - degeneratesRemoved, for a face that
\* is kept: the number of kept faces before it.
newFaceIndexOf(ri, faceIndex) ==
    Cardinality({ f \in 0..(faceIndex - 1) : IsInteger(At(ri, f)) })

keptFaces(ri, faceCount) ==
    SelectSeq(Range0(faceCount), LAMBDA faceIndex : IsInteger(At(ri, faceIndex)))

deleteDegenerates(pos, nbrs, ri) ==
    LET faceCount == FaceCount(pos)
        kept == keptFaces(ri, faceCount)
        newNeighbor(oldPosition) ==
            LET oldNeighborPosition == getNeighborPosition(nbrs, oldPosition)
            IN  IF /\ IsInteger(oldNeighborPosition)
                   /\ IsInteger(At(ri, faceFromPosition(oldNeighborPosition)))
                   /\ faceFromPosition(oldNeighborPosition) < faceCount
                THEN positionFromFaceEdge(
                         newFaceIndexOf(ri, faceFromPosition(oldNeighborPosition)),
                         edgeFromPosition(oldNeighborPosition))
                ELSE Null
    IN  [ positions      |-> [k \in 1..(3 * Len(kept)) |->
                                 pos[3 * kept[((k - 1) \div 3) + 1] + ((k - 1) % 3) + 1]],
          neighbors      |-> [k \in 1..(3 * Len(kept)) |->
                                 newNeighbor(3 * kept[((k - 1) \div 3) + 1] + ((k - 1) % 3))],
          reverseIslands |-> [k \in 1..Len(kept) |-> At(ri, kept[k])],
          removed        |-> faceCount - Len(kept) ]


\* ------------------------------------------------------------------
\* mergeFaces
\* ------------------------------------------------------------------
\* The most repetitions of the two passes of removeDegenerates, and of the
\* passes of mergeFaces.
MaxPasses == 4

\* The most steps of a walk around a vertex that the model follows.
MaxWalk == 8

\* equalNormals(x, y), x.equals(y) by default, on two unit normals given by
\* vectors of their directions (the zero vector stays zero).
equalNormals(x, y) ==
    \/ x = VZero /\ y = VZero
    \/ VCross(x, y) = VZero /\ VDot(x, y) > 0

\* Would moving the second vertex of the face at currentPosition to
\* startVertex change the normal of that face?  A face read outside the
\* position array has a NaN normal, which is equal to nothing.
normalChanged(pos, startVertex, currentPosition) ==
    \/ faceFromPosition(currentPosition) >= FaceCount(pos)
    \/ /\ TriNormal(At(pos, currentPosition), startVertex,
                    At(pos, previousPositionInFace(currentPosition))) # VZero
       /\ ~equalNormals(
              TriNormal(At(pos, currentPosition),
                        At(pos, nextPositionInFace(currentPosition)),
                        At(pos, previousPositionInFace(currentPosition))),
              TriNormal(At(pos, currentPosition), startVertex,
                        At(pos, previousPositionInFace(currentPosition))))

\* "Test if moving the point would affect any face normals": the do-while
\* walk around the end of the edge.  "yes": back at startPosition without a
\* break; "no": a break; "out": the walk is longer than the model follows.
RECURSIVE canCollapseAt(_, _, _, _, _)
canCollapseAt(m, startVertex, startPosition, currentPosition, fuel) ==
    IF ~IsInteger(currentPosition) THEN "no"
    ELSE IF normalChanged(m.positions, startVertex, currentPosition) THEN "no"
    ELSE IF currentPosition = startPosition THEN "yes"
    ELSE IF fuel = 0 THEN "out"
    ELSE canCollapseAt(m, startVertex, startPosition,
             getNeighborPosition(m.neighbors, nextPositionInFace(currentPosition)),
             fuel - 1)

canCollapse(m, startPosition) ==
    canCollapseAt(m, At(m.positions, startPosition), startPosition,
        getNeighborPosition(m.neighbors, nextPositionInFace(startPosition)), MaxWalk)

\* The second walk: the end of the edge is moved to startVertex in every
\* face around it; w.faces collects those faces.
RECURSIVE collapseWalk(_, _, _, _, _)
collapseWalk(w, nbrs, startVertex, startPosition, currentPosition) ==
    IF getNeighborPosition(nbrs, nextPositionInFace(currentPosition)) = startPosition
    THEN [ positions |-> Put(w.positions, nextPositionInFace(currentPosition), startVertex),
           faces     |-> Append(w.faces, faceFromPosition(currentPosition)) ]
    ELSE collapseWalk(
             [ positions |-> Put(w.positions, nextPositionInFace(currentPosition), startVertex),
               faces     |-> Append(w.faces, faceFromPosition(currentPosition)) ],
             nbrs, startVertex, startPosition,
             getNeighborPosition(nbrs, nextPositionInFace(currentPosition)))

\* facesMerged++ and this.removeDegenerates(faces), after the second walk w.
collapsed(m, w) ==
    removeDegeneratesLoop([m EXCEPT !.positions = w.positions, !.merged = @ + 1],
                          w.faces, MaxPasses)

collapseIf(m, startPosition, can) ==
    IF can = "yes"
    THEN collapsed(m, collapseWalk([positions |-> m.positions, faces |-> <<>>],
                                   m.neighbors, At(m.positions, startPosition),
                                   startPosition, startPosition))
    ELSE IF can = "out" THEN [m EXCEPT !.out = TRUE]
    ELSE m

\* The body of the two for loops of mergeFaces, for one face-edge.  A face
\* without a root is left alone (break).
mergeEdge(m, startPosition) ==
    IF ~IsInteger(At(m.reverseIslands, faceFromPosition(startPosition))) THEN m
    ELSE collapseIf(m, startPosition, canCollapse(m, startPosition))

\* this.deleteDegenerates() at the end of a pass.
mergeDelete(m, d) ==
    [m EXCEPT !.positions = d.positions, !.neighbors = d.neighbors,
              !.reverseIslands = d.reverseIslands]

\* One pass of the outer do-while: all face-edges below the face count
\* taken at the start of mergeFaces, then deleteDegenerates.
mergeDeleteAfter(m) ==
    mergeDelete(m, deleteDegenerates(m.positions, m.neighbors, m.reverseIslands))

mergePass(m, faceCount) ==
    mergeDeleteAfter(ForRange(mergeEdge, m, 0, 3 * faceCount - 1))

RECURSIVE mergeLoop(_, _, _)
mergeAgain(m, after, faceCount, fuel) ==
    IF after.merged = m.merged THEN after
    ELSE IF fuel = 0 THEN [after EXCEPT !.out = TRUE]
    ELSE mergeLoop(after, faceCount, fuel - 1)

mergeLoop(m, faceCount, fuel) == mergeAgain(m, mergePass(m, faceCount), faceCount, fuel)

\* mergeFaces(): removeDegenerates on all faces, then the passes.
mergeFaces(pos, nbrs, ri) ==
    mergeLoop(removeDegeneratesLoop(
                  [positions |-> pos, neighbors |-> nbrs, reverseIslands |-> ri,
                   removed |-> 0, rotated |-> 0, openRotated |-> 0, out |-> FALSE,
                   merged |-> 0],
                  Range0(FaceCount(pos)), MaxPasses),
              FaceCount(pos), MaxPasses)

\* ------------------------------------------------------------------
\* clone, isolate, isolatedBufferGeometries
\* ------------------------------------------------------------------
\* The mutators of one call are named by numbers: the mutator the method is
\* called on, and after it the mutators the method makes.  objs maps each
\* name to the arrays of that mutator.
This == 0

\* A faulty clone(): the new mutator shares the arrays of the old one.
cloneShared(objs, from, to) == [objs |-> objs, it |-> from]

\* clone(): a new mutator with slice(0) copies of the arrays.
clone(objs, from, to) ==
    [ objs |-> [n \in DOMAIN objs \cup {to} |->
                  IF n = to THEN [positions |-> objs[from].positions,
                                  neighbors |-> objs[from].neighbors,
                                  reverseIslands |-> objs[from].reverseIslands]
                  ELSE objs[n]],
      it |-> to ]

\* mutator.reverseIslands[faceIndex] = null, if the condition holds.
markNull(objs, it, faceIndex, condition) ==
    IF condition
    THEN [objs EXCEPT ![it].reverseIslands = Put(@, faceIndex, Null)]
    ELSE objs

\* mutator.deleteDegenerates()
deleteDegeneratesOf(objs, it) ==
    [objs EXCEPT ![it] = deleteDegenerates(objs[it].positions, objs[it].neighbors,
                                           objs[it].reverseIslands)]

\* The first face of every island: the faces at which seenIslands grows.
firstFaces(ri) ==
    SelectSeq(Range0(Len(ri)),
              LAMBDA face : /\ IsInteger(At(ri, face))
                            /\ \A g \in 0..(face - 1) : At(ri, g) # At(ri, face))

\* Array.from(seenIslands): the integer roots in the order of their first face.
islandsOf(ri) == [k \in 1..Len(firstFaces(ri)) |-> At(ri, firstFaces(ri)[k])]

\* The faces of the other islands are marked for deletion in the clone.
markOthers(objs, it, island) ==
    ForRange(LAMBDA o, faceIndex :
                 markNull(o, it, faceIndex,
                          /\ IsInteger(At(o[it].reverseIslands, faceIndex))
                          /\ At(o[it].reverseIslands, faceIndex) # island),
             objs, 0, FaceCount(objs[This].positions) - 1)

\* One turn of the loop of isolate(): clone, mark, deleteDegenerates, yield.
isolateOne(c, island) ==
    deleteDegeneratesOf(markOthers(c.objs, c.it, island), c.it)

isolateYield(acc, c, island) ==
    [ objs |-> isolateOne(c, island), made |-> Append(acc.made, c.it) ]

\* isolate(), all its mutators taken: the objects after it and the names of
\* the mutators it yielded.
isolate(objs) ==
    ForEach(LAMBDA acc, island :
                isolateYield(acc, clone(acc.objs, This, Len(acc.made) + 1), island),
            [objs |-> objs, made |-> <<>>],
            islandsOf(objs[This].reverseIslands))

\* The faces of one island, in increasing order.
facesOfIsland(ri, island) ==
    SelectSeq(Range0(Len(ri)), LAMBDA face : At(ri, face) = island)

\* The position and normal attributes of the BufferGeometry of one island.
geometryOfFaces(pos, faces) ==
    [ position |-> Flatten([k \in 1..Len(faces) |->
                               <<At(pos, 3 * faces[k]), At(pos, 3 * faces[k] + 1),
                                 At(pos, 3 * faces[k] + 2)>>]),
      normal   |-> [k \in 1..Len(faces) |-> faceNormal(pos, faces[k])] ]

\* isolatedBufferGeometries(): one BufferGeometry per island; nothing of the
\* mutator is written.
isolatedBufferGeometries(pos, ri) ==
    [k \in 1..Len(islandsOf(ri)) |->
        geometryOfFaces(pos, facesOfIsland(ri, islandsOf(ri)[k]))]

\* ------------------------------------------------------------------
\* disconnectAtSplit
\* ------------------------------------------------------------------
\* The distance used for a vertex: 0 if its key is in splitPositions.
splitDistance(plane, splitPositions, point) ==
    IF point \in splitPositions THEN 0 ELSE distanceToPoint(plane, point)

\* Is the face removed from half side (0: negative side, 1: positive side)?
\* "All positive or 0 so remove from the negative side", and the reverse.
removedFromSide(side, d0, d1, d2) ==
    IF side = 0 THEN d0 >= 0 /\ d1 >= 0 /\ d2 >= 0
    ELSE d0 <= 0 /\ d1 <= 0 /\ d2 <= 0

\* newBufferGeometryMutators[side].reverseIslands[faceIndex] = null, if so.
\* The distances are those of the face in the mutator the method is called on.
markFace(plane, splitPositions, objs, side, it, faceIndex) ==
    markNull(objs, it, faceIndex,
        removedFromSide(side,
           splitDistance(plane, splitPositions,
                         At(objs[This].positions, positionFromFace(faceIndex))),
           splitDistance(plane, splitPositions,
                         At(objs[This].positions, positionFromFace(faceIndex) + 1)),
           splitDistance(plane, splitPositions,
                         At(objs[This].positions, positionFromFace(faceIndex) + 2))))

\* The loop over the faces: first the test for the positive side (mutator
\* its[2]), then the test for the negative side (mutator its[1]).
markSides(plane, splitPositions, objs, its) ==
    ForRange(LAMBDA o, faceIndex :
                 markFace(plane, splitPositions,
                          markFace(plane, splitPositions, o, 1, its[2], faceIndex),
                          0, its[1], faceIndex),
             objs, 0, FaceCount(objs[This].positions) - 1)

\* for (let newBufferGeometryMutator of ...) newBufferGeometryMutator.deleteDegenerates()
disconnectedHalves(objs, its) ==
    [ objs |-> deleteDegeneratesOf(deleteDegeneratesOf(objs, its[1]), its[2]),
      made |-> its ]

\* The two clones, the first from c0 and the second made next.
secondClone(c0, c1) == [objs |-> c1.objs, made |-> <<c0.it, c1.it>>]

twoClones(c0) == secondClone(c0, clone(c0.objs, This, 2))

\* disconnectAtSplit(plane, splitPositions) called on objs[This]: the objects
\* after the call and the two mutators returned, the negative side first.
disconnectAtSplitOf(plane, splitPositions, objs, c) ==
    disconnectedHalves(markSides(plane, splitPositions, c.objs, c.made), c.made)

disconnectAtSplit(plane, splitPositions, objs) ==
    disconnectAtSplitOf(plane, splitPositions, objs, twoClones(clone(objs, This, 1)))

\* ------------------------------------------------------------------
\* findEdgesInPlane
\* ------------------------------------------------------------------
\* A Map from edge to [previous edge, next edge] is kept as its keys in
\* insertion order and the sequence of its values, indexed by edge.
NoEdges == [keys |-> <<>>, val |-> <<>>]

hasEdge(em, edge) == InSeq(edge, em.keys)

\* map.get(edge)[i] = value
setLink(em, edge, i, value) ==
    [em EXCEPT !.val = Put(@, edge, [At(em.val, edge) EXCEPT ![i + 1] = value])]

\* The face-edges with both ends on the split, in the order of the first loop.
edgesOnSplit(pos, splitPositions) ==
    SelectSeq(Range0(3 * FaceCount(pos)),
              LAMBDA position : /\ At(pos, position) \in splitPositions
                                /\ At(pos, nextPositionInFace(position)) \in splitPositions)

\* splitEdgesMap.keys(): the islands of those edges, in the order of their
\* first edge.
splitIslands(ri, onSplit) ==
    LET firsts == SelectSeq(Range0(Len(onSplit)),
                     LAMBDA k : \A j \in 0..(k - 1) :
                         At(ri, faceFromPosition(onSplit[j + 1]))
                            # At(ri, faceFromPosition(onSplit[k + 1])))
    IN  [k \in 1..Len(firsts) |-> At(ri, faceFromPosition(onSplit[firsts[k] + 1]))]

\* splitEdgesMap.get(island) after the first loop: every edge with [null, null].
islandEdges(ri, onSplit, island) ==
    [ keys |-> SelectSeq(onSplit, LAMBDA position :
                             At(ri, faceFromPosition(position)) = island),
      val  |-> [k \in 1..(IF onSplit = <<>> THEN 0 ELSE onSplit[Len(onSplit)] + 1) |->
                  <<Null, Null>>] ]

\* "First we check in one direction": around the start of the edge.  The
\* walk is given up (Undefined with out) once it is longer than the number of
\* face-edges, when it can only repeat itself.
RECURSIVE walkBack(_, _, _, _, _)
walkBack(nbrs, em, thisEdge, nextSplitEdge, fuel) ==
    IF /\ IsInteger(nextSplitEdge)
       /\ nextSplitEdge # thisEdge
       /\ ~hasEdge(em, nextSplitEdge)
    THEN IF fuel = 0 THEN [out |-> TRUE, edge |-> Undefined]
         ELSE walkBack(nbrs, em, thisEdge,
                       getNeighborPosition(nbrs, previousPositionInFace(nextSplitEdge)),
                       fuel - 1)
    ELSE [out |-> FALSE, edge |-> nextSplitEdge]

\* "Now check in the other direction": around the end of the edge.
RECURSIVE walkOn(_, _, _, _, _)
walkOn(nbrs, em, thisEdge, nextSplitEdge, fuel) ==
    IF /\ IsInteger(getNeighborPosition(nbrs, nextSplitEdge))
       /\ nextSplitEdge # thisEdge
       /\ ~hasEdge(em, nextSplitEdge)
    THEN IF fuel = 0 THEN [out |-> TRUE, edge |-> Undefined]
         ELSE walkOn(nbrs, em, thisEdge,
                     nextPositionInFace(getNeighborPosition(nbrs, nextSplitEdge)),
                     fuel - 1)
    ELSE [out |-> FALSE, edge |-> nextSplitEdge]

\* "Found it.  Store it in the map".
linkEdges(em, thisEdge, nextSplitEdge) ==
    setLink(setLink(em, thisEdge, 1, nextSplitEdge), nextSplitEdge, 0, thisEdge)

linkOn(e, thisEdge, found) ==
    IF found.out THEN [e EXCEPT !.out = TRUE]
    ELSE IF IsInteger(found.edge) /\ hasEdge(e.em, found.edge)
         THEN [e EXCEPT !.em = linkEdges(e.em, thisEdge, found.edge)]
    ELSE e

linkBack(nbrs, e, thisEdge, found) ==
    IF found.out THEN [e EXCEPT !.out = TRUE]
    ELSE IF IsInteger(found.edge) /\ hasEdge(e.em, found.edge)
         THEN [e EXCEPT !.em = linkEdges(e.em, thisEdge, found.edge)]
    ELSE linkOn(e, thisEdge,
                walkOn(nbrs, e.em, thisEdge, nextPositionInFace(thisEdge), Len(nbrs) + 1))

\* The second loop, for one edge of one island.
findNextEdge(nbrs, e, thisEdge) ==
    IF e.out THEN e
    ELSE linkBack(nbrs, e, thisEdge,
                  walkBack(nbrs, e.em, thisEdge, getNeighborPosition(nbrs, thisEdge),
                           Len(nbrs) + 1))

\* The edges of one island with their previous and next edges.
linkedEdges(nbrs, em) ==
    ForEach(LAMBDA e, thisEdge : findNextEdge(nbrs, e, thisEdge),
            [em |-> em, out |-> FALSE], em.keys)

\* findEdgesInPlane(splitPositions): the maps of the islands, in the order of
\* splitEdgesMap.
edgeMapsOf(pos, nbrs, ri, onSplit, islands) ==
    [k \in 1..Len(islands) |-> linkedEdges(nbrs, islandEdges(ri, onSplit, islands[k]))]

findEdgesInPlane(pos, nbrs, ri, splitPositions) ==
    edgeMapsOf(pos, nbrs, ri, edgesOnSplit(pos, splitPositions),
               splitIslands(ri, edgesOnSplit(pos, splitPositions)))

\* ------------------------------------------------------------------
\* findConvexHullSplitEdge, makeTriangleWithNoInsidePoints
\* ------------------------------------------------------------------
\* ba cross bc, not normalised.
cross3(left, middle, right) == VCross(VSub(left, middle), VSub(right, middle))

\* x.distanceToSquared(y) > 2 for the unit vectors of x and y (the zero vector
\* stays zero when normalised): the angle between them is above pi/2.
Obtuse(x, y) == VDot(x, y) < 0

\* x.distanceToSquared(y) > 3 for the unit vectors of x and y: the cosine of
\* the angle between them is below -1/2.
Opposite(x, y) ==
    /\ VDot(x, y) < 0
    /\ 4 * VDot(x, y) * VDot(x, y) > VDot(x, x) * VDot(y, y)

\* The angle 0, and the angle pi - a, as cosines.
ZeroAngle == [num |-> 1, den |-> 1]
Supplement(a) == [num |-> -a.num, den |-> a.den]

\* One more point for positionsInSameHemisphere.  max is maxAngle and min is
\* -minAngle; maxAngle - minAngle >= pi iff cos(max) <= cos(pi - min).
hemisphereAngle(h, angle, negative) ==
    IF negative
    THEN [h EXCEPT !.min = IF CosLE(h.min, angle) THEN h.min ELSE angle,
                   !.same = ~CosLE(h.max, Supplement(angle))]
    ELSE [h EXCEPT !.max = IF CosLE(h.max, angle) THEN h.max ELSE angle,
                   !.same = ~CosLE(angle, Supplement(h.min))]

hemisphereNormal(h, normal) ==
    IF h.positiveNormal = VZero THEN [h EXCEPT !.positiveNormal = normal] ELSE h

hemispherePoint(h, vertex, otherVertex) ==
    IF ~h.same \/ otherVertex = vertex THEN h
    ELSE IF h.firstVertex = <<>> THEN [h EXCEPT !.firstVertex = otherVertex]
    ELSE hemisphereAngle(hemisphereNormal(h, cross3(h.firstVertex, vertex, otherVertex)),
                         angle3(h.firstVertex, vertex, otherVertex),
                         Obtuse(cross3(h.firstVertex, vertex, otherVertex),
                                hemisphereNormal(h, cross3(h.firstVertex, vertex,
                                                           otherVertex)).positiveNormal))

\* allPoints(): both ends of every edge of the map.
allPoints(keys) ==
    [k \in 1..(2 * Len(keys)) |->
        IF k % 2 = 1 THEN keys[(k + 1) \div 2] ELSE nextPositionInFace(keys[k \div 2])]

positionsInSameHemisphere(pos, position, allPos) ==
    ForEach(LAMBDA h, otherPos : hemispherePoint(h, At(pos, position), At(pos, otherPos)),
            [firstVertex |-> <<>>, min |-> ZeroAngle, max |-> ZeroAngle,
             positiveNormal |-> VZero, same |-> TRUE],
            allPos).same

\* pointInTriangle(p, triangle): no two of the three cross products are
\* opposite.
pointInTriangle(p, triangle) ==
    \A i \in 0..2 :
       ~Opposite(cross3(triangle[i + 1], p, triangle[((i + 1) % 3) + 1]),
                 cross3(triangle[((i + 1) % 3) + 1], p, triangle[((i + 2) % 3) + 1]))

\* One point for makeTriangleWithNoInsidePoints: a point inside the triangle
\* replaces its third vertex.
insidePoint(vertices, maybeInsidePoint) ==
    IF \E k \in 1..3 : vertices[k] = maybeInsidePoint THEN vertices
    ELSE IF pointInTriangle(maybeInsidePoint, vertices)
         THEN [vertices EXCEPT ![3] = maybeInsidePoint]
    ELSE vertices

makeTriangleWithNoInsidePoints(pos, vertices, keys) ==
    ForEach(LAMBDA v, position : insidePoint(v, At(pos, position)), vertices, allPoints(keys))

\* The face that may be made on an edge: nextSplitEdge's next, nextSplitEdge
\* and the edge.
candidateFace(pos, thisEdge, nextSplitEdge) ==
    <<At(pos, nextPositionInFace(nextSplitEdge)), At(pos, nextSplitEdge), At(pos, thisEdge)>>

candidateNormal(pos, thisEdge, nextSplitEdge) ==
    TriNormal(At(pos, nextPositionInFace(nextSplitEdge)), At(pos, nextSplitEdge),
              At(pos, thisEdge))

nextOf(em, edge) == At(em.val, edge)[2]
previousOf(em, edge) == At(em.val, edge)[1]

\* The comparison of sortMap: by x, then y, then z of the start of the next edge.
sortsBefore(v0, v1) ==
    \/ v0[1] < v1[1]
    \/ v0[1] = v1[1] /\ v0[2] < v1[2]
    \/ v0[1] = v1[1] /\ v0[2] = v1[2] /\ v0[3] < v1[3]

\* The place of keys[k] after the sort, which is stable.
sortedPlace(pos, em, k) ==
    Cardinality({ j \in 1..Len(em.keys) :
        \/ sortsBefore(At(pos, nextOf(em, em.keys[j])), At(pos, nextOf(em, em.keys[k])))
        \/ /\ At(pos, nextOf(em, em.keys[j])) = At(pos, nextOf(em, em.keys[k]))
           /\ j < k }) + 1

sortMap(pos, em) ==
    [place \in 1..Len(em.keys) |->
        em.keys[CHOOSE k \in 1..Len(em.keys) : sortedPlace(pos, em, k) = place]]

\* Can a face be made on this edge, on the convex hull of the split?
isHullEdge(pos, em, sorted, thisEdge) ==
    /\ IsInteger(nextOf(em, thisEdge))
    /\ candidateNormal(pos, thisEdge, nextOf(em, thisEdge)) # VZero
    /\ positionsInSameHemisphere(pos, nextOf(em, thisEdge), allPoints(sorted))

firstHullEdge(pos, em, sorted) ==
    IF \E k \in 1..Len(sorted) : isHullEdge(pos, em, sorted, sorted[k])
    THEN sorted[CHOOSE k \in 1..Len(sorted) :
                   /\ isHullEdge(pos, em, sorted, sorted[k])
                   /\ \A j \in 1..(k - 1) : ~isHullEdge(pos, em, sorted, sorted[j])]
    ELSE Null

\* An edge without a next edge is sorted by the coordinates read at the
\* index null: the comparison gives NaN, it is not an order, and the order
\* after the sort is left to the implementation.
sortable(em) == \A k \in 1..Len(em.keys) : IsInteger(nextOf(em, em.keys[k]))

\* The orders that the model lets the sort leave a map in when the
\* comparison is not an order: the map as it was, or the edges with a next
\* edge sorted and the others all before or all after them.
SortOrders == {"kept", "first", "last"}

precedes(pos, em, j, k, order) ==
    IF IsInteger(nextOf(em, em.keys[j])) /\ IsInteger(nextOf(em, em.keys[k]))
    THEN \/ sortsBefore(At(pos, nextOf(em, em.keys[j])), At(pos, nextOf(em, em.keys[k])))
         \/ /\ At(pos, nextOf(em, em.keys[j])) = At(pos, nextOf(em, em.keys[k]))
            /\ j < k
    ELSE IF IsInteger(nextOf(em, em.keys[k])) THEN order = "first"
    ELSE IF IsInteger(nextOf(em, em.keys[j])) THEN order = "last"
    ELSE j < k

afterSort(pos, em, order) ==
    IF sortable(em) THEN sortMap(pos, em)
    ELSE IF order = "kept" THEN em.keys
    ELSE [place \in 1..Len(em.keys) |->
            em.keys[CHOOSE k \in 1..Len(em.keys) :
                       Cardinality({ j \in 1..Len(em.keys) :
                                       j # k /\ precedes(pos, em, j, k, order) }) + 1 = place]]

\* No edge passes the first two tests of the search loop (a next edge, a
\* candidate triangle with a normal): findConvexHullSplitEdge returns null
\* whatever the order after the sort.
noHullCandidate(pos, em) ==
    \A k \in 1..Len(em.keys) :
       \/ ~IsInteger(nextOf(em, em.keys[k]))
       \/ candidateNormal(pos, em.keys[k], nextOf(em, em.keys[k])) = VZero

findConvexHullSplitEdge(pos, em, order) == firstHullEdge(pos, em, afterSort(pos, em, order))

\* ------------------------------------------------------------------
\* fixPlanarHole, chop
\* ------------------------------------------------------------------
\* The most faces that one call of fixPlanarHole adds in the model.
MaxHoleFaces == 6

\* A mutator in fixPlanarHole: h.em is splitEdgesMap, h.hole is holeSplitEdges
\* in insertion order, with Null where an edge was deleted.  h.threw: a
\* TypeError was thrown (a link of an edge that is not in the map was read
\* or written).  h.hangs: the loop of fixPlanarHole never ends.  h.long: the
\* call has added MaxHoleFaces faces and would add one more.  h.out: the
\* model gave up.
holeAdd(hole, edge) == IF InSeq(edge, hole) THEN hole ELSE Append(hole, edge)

holeDelete(hole, edge) == [k \in 1..Len(hole) |-> IF hole[k] = edge THEN Null ELSE hole[k]]

\* for (splitEdge = from; isInteger(splitEdge) && !holeSplitEdges.has(splitEdge);
\*      splitEdge = splitEdgesMap.get(splitEdge)[i]) holeSplitEdges.add(splitEdge)
RECURSIVE holeWalk(_, _, _, _)
holeWalk(em, i, w, thisEdge) ==
    IF IsInteger(thisEdge) /\ ~InSeq(thisEdge, w.edges)
    THEN IF hasEdge(em, thisEdge)
         THEN holeWalk(em, i, [w EXCEPT !.edges = Append(@, thisEdge)],
                       At(em.val, thisEdge)[i + 1])
         ELSE [w EXCEPT !.edges = Append(@, thisEdge), !.threw = TRUE]
    ELSE [w EXCEPT !.end = thisEdge]

Reverse(seq) == [k \in 1..Len(seq) |-> seq[Len(seq) + 1 - k]]

\* The edges found backwards, reversed, then the forward edges.
bothWays(forward, backward) ==
    [ edges |-> ForEach(holeAdd, Reverse(backward.edges), forward.edges),
      threw |-> backward.threw ]

holeFrom(em, hullSplitEdge, forward) ==
    IF forward.threw \/ IsInteger(forward.end) THEN forward
    ELSE bothWays(forward,
                  holeWalk(em, 0, [edges |-> <<>>, threw |-> FALSE, end |-> Null],
                           previousOf(em, hullSplitEdge)))

\* holeSplitEdges of the hole of the hull edge.
holeSplitEdges(em, hullSplitEdge) ==
    holeFrom(em, hullSplitEdge,
             holeWalk(em, 1, [edges |-> <<>>, threw |-> FALSE, end |-> Null], hullSplitEdge))

\* if (Number.isInteger(key)) splitEdgesMap.get(key)[i] = value
updateLink(h, key, i, value) ==
    IF h.threw \/ ~IsInteger(key) THEN h
    ELSE IF ~hasEdge(h.em, key) THEN [h EXCEPT !.threw = TRUE]
    ELSE [h EXCEPT !.em = setLink(h.em, key, i, value)]

\* "Remove the edges that are now connected", from the map and from the hole.
forgetEdges(h, newEdge, otherEdge) ==
    IF h.threw THEN h
    ELSE [h EXCEPT !.em.keys = SeqRemove(SeqRemove(@, otherEdge), newEdge),
                   !.hole = holeDelete(holeDelete(@, otherEdge), newEdge)]

\* "Update the doubly-linked split edges", with the four links read before.
relink(h, newEdge, otherEdge, previousNew, nextNew, previousOther, nextOther) ==
    forgetEdges(
        updateLink(updateLink(updateLink(updateLink(h,
            previousNew, 1, nextOther),
            previousOther, 1, nextNew),
            nextNew, 0, previousOther),
            nextOther, 0, previousNew),
        newEdge, otherEdge)

\* A faulty repair: an edge of the new face is never connected.
connectFoundNot(h, newEdge, otherEdge) == h

\* "We can connect this."
connectFound(h, newEdge, otherEdge) ==
    IF ~hasEdge(h.em, newEdge) THEN [h EXCEPT !.threw = TRUE]
    ELSE relink([h EXCEPT !.neighbors = Put(Put(@, newEdge, otherEdge), otherEdge, newEdge)],
                newEdge, otherEdge,
                previousOf(h.em, newEdge), nextOf(h.em, newEdge),
                previousOf(h.em, otherEdge), nextOf(h.em, otherEdge))

canConnect(pos, newEdge, otherEdge) ==
    /\ equalTrios(pos, newEdge, nextPositionInFace(otherEdge))
    /\ equalTrios(pos, nextPositionInFace(newEdge), otherEdge)

\* "Connect all unconnectedEdges that can be connected", for one new edge:
\* the first edge of the map that fits.
connectNewEdge(h, newEdge) ==
    IF h.threw THEN h
    ELSE IF \E k \in 1..Len(h.em.keys) : canConnect(h.positions, newEdge, h.em.keys[k])
         THEN connectFound(h, newEdge,
                  h.em.keys[CHOOSE k \in 1..Len(h.em.keys) :
                      /\ canConnect(h.positions, newEdge, h.em.keys[k])
                      /\ \A j \in 1..(k - 1) :
                            ~canConnect(h.positions, newEdge, h.em.keys[j])])
    ELSE h

\* "Add the new face to the positions" and its edges to the map and the hole.
appendFace(h, vertices, newPosition) ==
    [h EXCEPT
       !.positions = @ \o vertices,
       !.em = [keys |-> @.keys \o <<newPosition, newPosition + 1, newPosition + 2>>,
               val  |-> Put(Put(Put(@.val,
                            newPosition, <<newPosition + 2, newPosition + 1>>),
                            newPosition + 1, <<newPosition, newPosition + 2>>),
                            newPosition + 2, <<newPosition + 1, newPosition>>)],
       !.hole = @ \o <<newPosition, newPosition + 1, newPosition + 2>>,
       !.added = @ + 1]

\* The candidate triangle on an edge is colinear: it has no normal.
colinearCandidate(pos, thisEdge, nextSplitEdge) ==
    candidateNormal(pos, thisEdge, nextSplitEdge) = VZero

\* h.colinear counts the faces added for a colinear candidate triangle.
countColinear(h, thisEdge) ==
    IF colinearCandidate(h.positions, thisEdge, nextOf(h.em, thisEdge))
    THEN [h EXCEPT !.colinear = @ + 1]
    ELSE h

addFace(h, vertices, newPosition) ==
    ForEach(connectNewEdge, appendFace(h, vertices, newPosition),
            <<newPosition, newPosition + 1, newPosition + 2>>)

\* The body of the loop over holeSplitEdges, for one edge.
sealEdge(h, hullNormal, thisEdge) ==
    IF h.threw \/ h.out \/ thisEdge = Null THEN h
    ELSE IF ~hasEdge(h.em, thisEdge) THEN [h EXCEPT !.threw = TRUE]
    ELSE IF ~IsInteger(nextOf(h.em, thisEdge)) THEN h
    ELSE IF Opposite(candidateNormal(h.positions, thisEdge, nextOf(h.em, thisEdge)),
                     hullNormal)
         THEN h
    ELSE IF h.added >= MaxHoleFaces THEN [h EXCEPT !.out = TRUE, !.long = TRUE]
    ELSE addFace(countColinear(h, thisEdge),
                 makeTriangleWithNoInsidePoints(h.positions,
                     candidateFace(h.positions, thisEdge, nextOf(h.em, thisEdge)),
                     h.em.keys),
                 Len(h.positions))

\* for (let splitEdge of holeSplitEdges) ...: the edges added on the way are
\* visited too, the edges deleted before their turn are not.
RECURSIVE sealHole(_, _, _)
sealHole(h, hullNormal, i) ==
    IF h.threw \/ h.out \/ i > Len(h.hole) THEN h
    ELSE sealHole(sealEdge(h, hullNormal, h.hole[i]), hullNormal, i + 1)

sealFrom(h, hullSplitEdge, hole) ==
    IF hole.threw THEN [h EXCEPT !.threw = TRUE]
    ELSE sealHole([h EXCEPT !.hole = hole.edges],
                  candidateNormal(h.positions, hullSplitEdge, nextOf(h.em, hullSplitEdge)),
                  1)

RECURSIVE fixPlanarHoleLoop(_)
\* A turn that added no face has changed nothing, so that every later turn
\* does the same: the loop never ends (h.hangs).
againUnlessSame(h, sealed) ==
    IF ~sealed.threw /\ ~sealed.out /\ sealed.added = h.added
    THEN [sealed EXCEPT !.hangs = TRUE]
    ELSE fixPlanarHoleLoop(sealed)

\* One turn of "Loop until all the plane is sealed", after the hull edge was
\* looked for.
sealOrReturn(h, hullSplitEdge) ==
    IF ~IsInteger(hullSplitEdge) THEN h
    ELSE againUnlessSame(h, sealFrom(h, hullSplitEdge,
                                     holeSplitEdges(h.em, hullSplitEdge)))

fixPlanarHoleLoop(h) ==
    IF h.threw \/ h.out \/ h.hangs \/ h.em.keys = <<>> THEN h
    ELSE IF noHullCandidate(h.positions, h.em) THEN h
    ELSE sealOrReturn(h, findConvexHullSplitEdge(h.positions, h.em, h.order))

countFixed(h) == [h EXCEPT !.fixed = @ + h.added]

\* fixPlanarHole(splitEdgesMap) on a mutator m, with the map e that
\* findEdgesInPlane made for one island.
fixPlanarHole(m, e) ==
    IF m.threw \/ m.out \/ m.hangs THEN m
    ELSE IF e.out THEN [m EXCEPT !.out = TRUE]
    ELSE countFixed(fixPlanarHoleLoop([m EXCEPT !.em = e.em, !.hole = <<>>, !.added = 0]))

\* One half in chop: the holes of its islands are fixed, then computeIslands().
mended(m) ==
    [m EXCEPT !.reverseIslands = IF m.threw \/ m.out \/ m.hangs THEN m.reverseIslands
                                 ELSE computeIslands(m.positions, m.neighbors)]

mendHalf(half, splitPositions, order) ==
    mended(ForEach(fixPlanarHole,
                   [positions |-> half.positions, neighbors |-> half.neighbors,
                    reverseIslands |-> half.reverseIslands,
                    em |-> NoEdges, hole |-> <<>>, added |-> 0, fixed |-> 0,
                    threw |-> FALSE, hangs |-> FALSE, out |-> FALSE, long |-> FALSE,
                    order |-> order, colinear |-> 0],
                   findEdgesInPlane(half.positions, half.neighbors, half.reverseIslands,
                                    splitPositions)))

mendHalves(d, splitPositions, order) ==
    [ objs |-> d.objs,
      made |-> [k \in 1..2 |-> mendHalf(d.objs[d.made[k]], splitPositions, order)] ]

\* The rest of chop(plane) after splitFaces, whose result is s.
chopSplit(plane, s, order) ==
    [ split |-> s,
      halves |-> mendHalves(disconnectAtSplit(plane, s.splitPositions,
                                [n \in {This} |->
                                    [positions |-> s.positions, neighbors |-> s.neighbors,
                                     reverseIslands |-> s.reverseIslands]]),
                            s.splitPositions, order) ]

\* chop(plane): the mutator after its splitFaces, and the two mutators
\* returned.
chop(plane, pos, nbrs, ri, order) ==
    chopSplit(plane, splitFaces(plane, pos, nbrs, ri), order)

\* ------------------------------------------------------------------
\* Inputs of the model
\* ------------------------------------------------------------------
\* The most operations applied to a mutator after fromBufferGeometry.
MaxOps == 2
\* The most faces of a triangle soup drawn from FacePool.
MaxSoupFaces == 2

PA == <<0, 0, 0>>
PB == <<2, 0, 0>>
PC == <<0, 2, 0>>
PD == <<0, 0, 2>>
PE == <<2, 2, 0>>
PM == <<1, 0, 0>>
PF == <<0, -2, 0>>
PG == <<0, 0, -2>>
PH == <<0, 2, 2>>

\* Faces for triangle soups: two faces sharing an edge, a reversed face, a
\* face with three colinear points, a face with two equal points, a second
\* face on an already used edge.
FacePool ==
    { <<PA, PB, PC>>, <<PB, PA, PD>>, <<PB, PA, PC>>, <<PA, PM, PB>>,
      <<PA, PA, PB>>, <<PC, PB, PE>>, <<PA, PB, PE>> }

Soups == { Flatten(fs) : fs \in UNION { [1..n -> FacePool] : n \in 1..MaxSoupFaces } }

\* A closed tetrahedron on four points that are not in one plane.
Tetrahedron(p, q, r, s) == <<p, q, r>> \o <<p, s, q>> \o <<q, s, r>> \o <<r, s, p>>

\* Base triangles in the plane z = 0; the apex is PD.  Both orientations.
BaseTriangles ==
    { <<PA, PB, PC>>, <<PB, PA, PC>>, <<PA, PB, PE>>, <<PB, PC, PE>>,
      <<PM, PB, PC>>, <<PC, PB, PM>>, <<PA, PM, PC>>, <<PM, PE, PC>> }

Tetrahedra == { Tetrahedron(t[1], t[2], t[3], PD) : t \in BaseTriangles }

\* Three and four faces on the edge PA-PB, a closed pair of faces with a
\* colinear face, a closed pair of faces with a third face on one of its
\* edges, a tetrahedron with a degenerate face after it, and two
\* tetrahedra that share the edge PA-PB (with equal and with opposite
\* orientation).
Fans ==
    { <<PA, PB, PC>> \o <<PB, PA, PD>> \o <<PB, PA, PE>>,
      <<PA, PB, PC>> \o <<PB, PA, PD>> \o <<PA, PB, PE>> \o <<PB, PA, PC>>,
      <<PA, PB, PC>> \o <<PB, PA, PC>> \o <<PA, PM, PB>>,
      <<PA, PB, PC>> \o <<PB, PA, PC>> \o <<PB, PA, PD>>,
      Tetrahedron(PA, PB, PC, PD) \o <<PA, PA, PB>>,
      Tetrahedron(PA, PB, PC, PD) \o Tetrahedron(PA, PB, PF, PG),
      Tetrahedron(PA, PB, PC, PD) \o Tetrahedron(PB, PA, PF, PG) }

\* Two tetrahedra on either side of the face PA-PB-PC, each with its own copy
\* of that face: with the normals outward, with the normals inward, and with
\* the faces of the two interleaved.
SharedFace ==
    { Tetrahedron(PB, PA, PC, PD) \o Tetrahedron(PA, PB, PC, PG),
      Tetrahedron(PA, PB, PC, PD) \o Tetrahedron(PB, PA, PC, PG),
      <<PB, PA, PC>> \o <<PA, PB, PC>> \o <<PB, PD, PA>> \o <<PA, PG, PB>>
         \o <<PA, PD, PC>> \o <<PB, PG, PC>> \o <<PC, PD, PB>> \o <<PC, PG, PA>> }

\* Four open faces on the edge PA-PB, two in each direction, in half-planes
\* at different angles around the edge: every one of the four edges has two
\* candidates, none of them of its own island.
Wedges ==
    { <<PA, PB, PC>> \o <<PA, PB, PG>> \o <<PB, PA, PD>> \o <<PB, PA, PH>>,
      <<PA, PB, PF>> \o <<PA, PB, PD>> \o <<PB, PA, PG>> \o <<PB, PA, PH>> }

Meshes == Soups \cup Tetrahedra \cup Fans \cup SharedFace \cup Wedges

\* The most faces of a mesh whose faces are tried in every order; the faces
\* of a larger mesh are rotated, reversed and swapped in neighbouring pairs.
MaxPermFaces == 4

\* The orders in which the n faces of a mesh are given: face order[k + 1] of
\* the mesh becomes face k.
FaceOrders(n) ==
    IF n <= MaxPermFaces
    THEN { o \in [1..n -> 0..(n - 1)] : \A i, j \in 1..n : o[i] = o[j] => i = j }
    ELSE { [k \in 1..n |-> (k - 1 + r) % n] : r \in 0..(n - 1) }
         \cup { [k \in 1..n |-> n - k] }
         \cup { [k \in 1..n |-> IF k = i THEN i ELSE IF k = i + 1 THEN i - 1 ELSE k - 1] :
                   i \in 1..(n - 1) }

\* The position attribute of the same faces given in another order.
PermuteFaces(pos, order) ==
    [k \in 1..Len(pos) |-> pos[3 * order[((k - 1) \div 3) + 1] + ((k - 1) % 3) + 1]]

\* The plane x = 1 with either orientation, the plane z = 1, and the plane
\* z = 0, in which the faces with the corners PA, PB, PC, PE, PM lie.
Planes == { [normal |-> <<1, 0, 0>>, constant |-> -1],
            [normal |-> <<-1, 0, 0>>, constant |-> 1],
            [normal |-> <<0, 0, 1>>, constant |-> -1],
            [normal |-> <<0, 0, 1>>, constant |-> 0] }

NoPlane == [normal |-> VZero, constant |-> 0]

\* ------------------------------------------------------------------
\* The state machine: a mutator and the operations applied to it
\* ------------------------------------------------------------------
Snapshot == [positions |-> positions, neighbors |-> neighbors,
             reverseIslands |-> reverseIslands]

NoRet == [ nonManifold |-> FALSE, splitPositions |-> {}, crossings |-> 0,
           boundary |-> 0, plane |-> NoPlane, removed |-> 0, rotated |-> 0,
           openRotated |-> 0, made |-> <<>>, merged |-> 0, face |-> Null ]

\* findNeighbors is not running.
NoLoop == [at |-> "idle", did |-> "none", st |-> <<>>]

Init ==
    /\ positions = <<>>
    /\ neighbors = <<>>
    /\ reverseIslands = <<>>
    /\ built = "none"
    /\ lastOp = "constructor"
    /\ pre = [positions |-> <<>>, neighbors |-> <<>>, reverseIslands |-> <<>>]
    /\ ret = NoRet
    /\ opCount = 0
    /\ loop = NoLoop

\* new BufferGeometryMutator().fromBufferGeometry(mesh)
FromBufferGeometry(mesh) ==
    /\ built = "none"
    /\ \E r \in {findNeighbors(mesh)} :
       /\ positions' = mesh
       /\ neighbors' = r.neighbors
       /\ reverseIslands' = r.reverseIslands
       /\ built' = IF r.ret THEN "mutator" ELSE "null"
       /\ ret' = [NoRet EXCEPT !.nonManifold = r.nonManifold]
    /\ lastOp' = "fromBufferGeometry"
    /\ pre' = Snapshot
    /\ UNCHANGED <<opCount, loop>>

CanOperate == built = "mutator" /\ opCount < MaxOps

FindNeighbors ==
    /\ CanOperate
    /\ \E r \in {findNeighbors(positions)} :
       /\ neighbors' = r.neighbors
       /\ reverseIslands' = r.reverseIslands
       /\ ret' = [NoRet EXCEPT !.nonManifold = r.nonManifold]
    /\ lastOp' = "findNeighbors"
    /\ pre' = Snapshot
    /\ opCount' = opCount + 1
    /\ UNCHANGED <<positions, built, loop>>

SplitFaces(plane) ==
    /\ CanOperate
    /\ \E r \in {splitFaces(plane, positions, neighbors, reverseIslands)} :
       /\ r.exact      \* the intersection points stay on the integer grid
       /\ positions' = r.positions
       /\ neighbors' = r.neighbors
       /\ reverseIslands' = r.reverseIslands
       /\ ret' = [NoRet EXCEPT !.splitPositions = r.splitPositions,
                               !.crossings = r.crossings,
                               !.boundary = r.boundary,
                               !.plane = plane]
    /\ lastOp' = "splitFaces"
    /\ pre' = Snapshot
    /\ opCount' = opCount + 1
    /\ UNCHANGED <<built, loop>>

ComputeIslands ==
    /\ CanOperate
    /\ reverseIslands' = computeIslands(positions, neighbors)
    /\ ret' = NoRet
    /\ lastOp' = "computeIslands"
    /\ pre' = Snapshot
    /\ opCount' = opCount + 1
    /\ UNCHANGED <<positions, neighbors, built, loop>>

\* removeDegenerates(this.range(faceCount))
RemoveDegenerates ==
    /\ CanOperate
    /\ \E r \in {removeDegeneratesLoop(
                    [positions |-> positions, neighbors |-> neighbors,
                     reverseIslands |-> reverseIslands,
                     removed |-> 0, rotated |-> 0, openRotated |-> 0, out |-> FALSE],
                    Range0(FaceCount(positions)), MaxPasses)} :
       /\ ~r.out
       /\ positions' = r.positions
       /\ neighbors' = r.neighbors
       /\ reverseIslands' = r.reverseIslands
       /\ ret' = [NoRet EXCEPT !.removed = r.removed, !.rotated = r.rotated,
                               !.openRotated = r.openRotated]
    /\ lastOp' = "removeDegenerates"
    /\ pre' = Snapshot
    /\ opCount' = opCount + 1
    /\ UNCHANGED <<built, loop>>

DeleteDegenerates ==
    /\ CanOperate
    /\ \E r \in {deleteDegenerates(positions, neighbors, reverseIslands)} :
       /\ positions' = r.positions
       /\ neighbors' = r.neighbors
       /\ reverseIslands' = r.reverseIslands
       /\ ret' = [NoRet EXCEPT !.removed = r.removed]
    /\ lastOp' = "deleteDegenerates"
    /\ pre' = Snapshot
    /\ opCount' = opCount + 1
    /\ UNCHANGED <<built, loop>>

MergeFaces ==
    /\ CanOperate
    /\ \E r \in {mergeFaces(positions, neighbors, reverseIslands)} :
       /\ ~r.out
       /\ positions' = r.positions
       /\ neighbors' = r.neighbors
       /\ reverseIslands' = r.reverseIslands
       /\ ret' = [NoRet EXCEPT !.removed = r.removed, !.rotated = r.rotated,
                               !.openRotated = r.openRotated, !.merged = r.merged]
    /\ lastOp' = "mergeFaces"
    /\ pre' = Snapshot
    /\ opCount' = opCount + 1
    /\ UNCHANGED <<built, loop>>

\* disconnectAtSplit(plane, splitPositions), with the split positions that the
\* last splitFaces returned or with none.  ret.made holds the two mutators
\* it returns.
DisconnectAtSplit(plane) ==
    /\ CanOperate
    /\ \E splitPositions \in {{}, ret.splitPositions} :
       \E r \in {disconnectAtSplit(plane, splitPositions, [n \in {This} |-> Snapshot])} :
          /\ positions' = r.objs[This].positions
          /\ neighbors' = r.objs[This].neighbors
          /\ reverseIslands' = r.objs[This].reverseIslands
          /\ ret' = [NoRet EXCEPT !.plane = plane,
                                  !.splitPositions = splitPositions,
                                  !.made = [k \in 1..2 |-> r.objs[r.made[k]]]]
    /\ lastOp' = "disconnectAtSplit"
    /\ pre' = Snapshot
    /\ opCount' = opCount + 1
    /\ UNCHANGED <<built, loop>>

\* Array.from(isolate()): ret.made holds the mutators it yields.
Isolate ==
    /\ CanOperate
    /\ \E r \in {isolate([n \in {This} |-> Snapshot])} :
          /\ positions' = r.objs[This].positions
          /\ neighbors' = r.objs[This].neighbors
          /\ reverseIslands' = r.objs[This].reverseIslands
          /\ ret' = [NoRet EXCEPT !.made = [k \in 1..Len(r.made) |-> r.objs[r.made[k]]]]
    /\ lastOp' = "isolate"
    /\ pre' = Snapshot
    /\ opCount' = opCount + 1
    /\ UNCHANGED <<built, loop>>

\* isolatedBufferGeometries(): ret.made holds the geometries it returns.
IsolatedBufferGeometries ==
    /\ CanOperate
    /\ ret' = [NoRet EXCEPT !.made = isolatedBufferGeometries(positions, reverseIslands)]
    /\ lastOp' = "isolatedBufferGeometries"
    /\ pre' = Snapshot
    /\ opCount' = opCount + 1
    /\ UNCHANGED <<positions, neighbors, reverseIslands, built, loop>>

\* chop(plane): the mutator is split in place; ret.made holds the two
\* mutators returned.
Chop(plane) ==
    /\ CanOperate
    /\ \E r \in {chop(plane, positions, neighbors, reverseIslands, order) :
                    order \in SortOrders} :
          /\ r.split.exact
          /\ \A k \in 1..2 : r.halves.made[k].out => r.halves.made[k].long
          /\ positions' = r.halves.objs[This].positions
          /\ neighbors' = r.halves.objs[This].neighbors
          /\ reverseIslands' = r.halves.objs[This].reverseIslands
          /\ ret' = [NoRet EXCEPT !.splitPositions = r.split.splitPositions,
                                  !.crossings = r.split.crossings,
                                  !.plane = plane,
                                  !.made = r.halves.made]
    /\ lastOp' = "chop"
    /\ pre' = Snapshot
    /\ opCount' = opCount + 1
    /\ UNCHANGED <<built, loop>>

Next ==
    \/ \E mesh \in Meshes : FromBufferGeometry(mesh)
    \/ FindNeighbors
    \/ \E plane \in Planes : SplitFaces(plane)
    \/ ComputeIslands
    \/ RemoveDegenerates
    \/ DeleteDegenerates
    \/ MergeFaces
    \/ \E plane \in Planes : DisconnectAtSplit(plane)
    \/ Isolate
    \/ IsolatedBufferGeometries
    \/ \E plane \in Planes : Chop(plane)

Spec == Init /\ [][Next]_vars

\* ------------------------------------------------------------------
\* The resolution loop of findNeighbors, one step at a time
\* ------------------------------------------------------------------
\* findNeighbors() has built the faces array and unconnectedEdges of a mesh
\* and is about to test the condition of its while loop.
LoopInit ==
    /\ positions \in Meshes
    /\ neighbors = <<>>
    /\ reverseIslands = <<>>
    /\ built = "none"
    /\ lastOp = "findNeighbors"
    /\ pre = [positions |-> <<>>, neighbors |-> <<>>, reverseIslands |-> <<>>]
    /\ ret = NoRet
    /\ opCount = 0
    /\ loop = [at |-> "while", did |-> "init", st |-> findNeighborsInit(positions)]

\* while (unconnectedEdges.size > 0) { let foundOne = false;
LoopTest ==
    /\ loop.at = "while"
    /\ loop' = IF loop.st.un = <<>>
               THEN [at |-> "save", did |-> "while", st |-> loop.st]
               ELSE [at |-> "a", did |-> "while",
                     st |-> [loop.st EXCEPT !.foundOne = FALSE]]
    /\ UNCHANGED <<positions, neighbors, reverseIslands, built, lastOp, pre, ret, opCount>>

\* "Connect all edges that have just one neighbor", then continue if one
\* was found.
StepA ==
    /\ loop.at = "a"
    /\ \E st \in {loop.st} : \E s \in {connectSingles(st, st.un)} :
          loop' = [at |-> IF s.foundOne THEN "while" ELSE "b", did |-> "a", st |-> s]
    /\ UNCHANGED <<positions, neighbors, reverseIslands, built, lastOp, pre, ret, opCount>>

\* "Try to join edges that are already part of the same shape", then
\* continue if one was found.
StepB ==
    /\ loop.at = "b"
    /\ \E st \in {loop.st} : \E s \in {connectSameIsland(st, st.un)} :
          loop' = [at |-> IF s.foundOne THEN "while" ELSE "c", did |-> "b", st |-> s]
    /\ UNCHANGED <<positions, neighbors, reverseIslands, built, lastOp, pre, ret, opCount>>

\* "Get rid of the worst possibleNeighbor", or break if there is none.
StepC ==
    /\ loop.at = "c"
    /\ \E st \in {loop.st} : \E worst \in {worstCandidate(positions, st, st.un, NoWorst)} :
          loop' = IF worst.none
                  THEN [at |-> "save", did |-> "c",
                        st |-> [st EXCEPT !.nonManifold = TRUE]]
                  ELSE [at |-> "while", did |-> "c",
                        st |-> removeCandidate(st, worst)]
    /\ UNCHANGED <<positions, neighbors, reverseIslands, built, lastOp, pre, ret, opCount>>

\* "All done, now save the result" and return.
SaveResult ==
    /\ loop.at = "save"
    /\ \E r \in {saveResult(loop.st)} :
          /\ neighbors' = r.neighbors
          /\ reverseIslands' = r.reverseIslands
          /\ ret' = [NoRet EXCEPT !.nonManifold = r.nonManifold]
    /\ loop' = [at |-> "done", did |-> "save", st |-> loop.st]
    /\ UNCHANGED <<positions, built, lastOp, pre, opCount>>

LoopNext ==
    \/ LoopTest
    \/ StepA
    \/ StepB
    \/ StepC
    \/ SaveResult

\* The code runs on until it returns: no step that can be taken is put off
\* for ever.  This is WF_vars(LoopNext) written out, with ENABLED
\* <<LoopNext>>_vars replaced by its value: a step can be taken, and changes
\* loop.at, exactly as long as findNeighbors has not returned.
LoopFairness == []<>(loop.at = "done") \/ []<><<LoopNext>>_vars

LoopSpec == LoopInit /\ [][LoopNext]_vars /\ LoopFairness

\* ------------------------------------------------------------------
\* removeDegenerates0Angle(faces) as mergeFaces calls it, one face at a time
\* ------------------------------------------------------------------
\* The first face-edge, in the order of the two for loops of mergeFaces, on
\* which the first walk ends without a break (or is longer than the model
\* follows); Null if there is none.
firstCollapse(m, faceCount) ==
    At(SelectSeq(Range0(3 * faceCount),
                 LAMBDA startPosition :
                    /\ IsInteger(At(m.reverseIslands, faceFromPosition(startPosition)))
                    /\ canCollapse(m, startPosition) # "no"),
       0)

\* The mutator when mergeFaces, on its first collapse, has moved the end of
\* the edge at startPosition and is about to call removeDegenerates(faces).
movedAt(m, startPosition, w) ==
    [ found |-> TRUE, positions |-> w.positions, neighbors |-> m.neighbors,
      reverseIslands |-> m.reverseIslands, faces |-> w.faces ]

beforeRemoval(m, startPosition) ==
    IF ~IsInteger(startPosition) \/ m.out THEN [found |-> FALSE]
    ELSE IF canCollapse(m, startPosition) # "yes" THEN [found |-> FALSE]
    ELSE movedAt(m, startPosition,
                 collapseWalk([positions |-> m.positions, faces |-> <<>>],
                              m.neighbors, At(m.positions, startPosition),
                              startPosition, startPosition))

firstRemoval(m, faceCount) == beforeRemoval(m, firstCollapse(m, faceCount))

\* mergeFaces() on the arrays, up to its first call of removeDegenerates(faces)
\* at the end of a collapse.
mergeFacesToRemoval(pos, nbrs, ri) ==
    firstRemoval(removeDegeneratesLoop(
                     [positions |-> pos, neighbors |-> nbrs, reverseIslands |-> ri,
                      removed |-> 0, rotated |-> 0, openRotated |-> 0, out |-> FALSE,
                      merged |-> 0],
                     Range0(FaceCount(pos)), MaxPasses),
                 FaceCount(pos))

\* The mesh as it is given to mergeFaces: after findNeighbors, cut by a plane
\* or not.
cutOrNot(plane, pos, f) ==
    IF plane = NoPlane
    THEN [positions |-> pos, neighbors |-> f.neighbors,
          reverseIslands |-> f.reverseIslands, exact |-> TRUE]
    ELSE splitFaces(plane, pos, f.neighbors, f.reverseIslands)

removalOf(s) ==
    IF s.exact THEN mergeFacesToRemoval(s.positions, s.neighbors, s.reverseIslands)
    ELSE [found |-> FALSE]

\* mergeFaces() has moved a vertex and enters removeDegenerates0Angle(faces).
ZeroInit ==
    \E mesh \in Meshes, plane \in Planes \cup {NoPlane} :
       \E c \in {removalOf(cutOrNot(plane, mesh, findNeighbors(mesh)))} :
          /\ c.found
          /\ positions = c.positions
          /\ neighbors = c.neighbors
          /\ reverseIslands = c.reverseIslands
          /\ loop = [at |-> "zero", did |-> "collapse", st |-> c.faces]
          /\ built = "mutator"
          /\ lastOp = "mergeFaces"
          /\ pre = [positions |-> <<>>, neighbors |-> <<>>, reverseIslands |-> <<>>]
          /\ ret = NoRet
          /\ opCount = 0

\* for (let faceIndex of faces) { ... }: the body, for the next face.
ZeroAngleFace ==
    /\ loop.at = "zero"
    /\ loop.st # <<>>
    /\ \E r \in {removeZeroFace([positions |-> positions, neighbors |-> neighbors,
                                 reverseIslands |-> reverseIslands, removed |-> 0],
                                Head(loop.st))} :
          /\ neighbors' = r.neighbors
          /\ reverseIslands' = r.reverseIslands
          /\ ret' = [NoRet EXCEPT !.removed = r.removed, !.face = Head(loop.st)]
    /\ loop' = [at |-> "zero", did |-> "face", st |-> Tail(loop.st)]
    /\ pre' = Snapshot
    /\ UNCHANGED <<positions, built, lastOp, opCount>>

\* return degeneratesRemoved;
ZeroAngleReturn ==
    /\ loop.at = "zero"
    /\ loop.st = <<>>
    /\ loop' = [at |-> "done", did |-> "return", st |-> <<>>]
    /\ UNCHANGED <<positions, neighbors, reverseIslands, built, lastOp, pre, ret, opCount>>

ZeroNext ==
    \/ ZeroAngleFace
    \/ ZeroAngleReturn

ZeroSpec == ZeroInit /\ [][ZeroNext]_vars

\* ------------------------------------------------------------------
\* fixHoles on a mutator with or without colors
\* ------------------------------------------------------------------
\* The most faces that one call of fixHoles adds in the model.
MaxFixFaces == 8

\* this.colors: undefined (present is FALSE), or one color for every vertex.
NoColors == [present |-> FALSE, values |-> <<>>]
ColorsOf(pos) == [present |-> TRUE, values |-> [k \in 1..Len(pos) |-> 0]]

\* score(a, b, c, otherNormal): the squared distance of two normals, 2 - 2 cos
\* of the angle between them, kept as the cosine num / sqrt(den).  A zero
\* normal stays zero: one zero normal gives the score 1 (the cosine 1/2),
\* two give the score 0 (the cosine 1).
score(a, b, c, otherNormal) ==
    IF TriNormal(a, b, c) = VZero /\ otherNormal = VZero THEN [num |-> 1, den |-> 1]
    ELSE IF TriNormal(a, b, c) = VZero \/ otherNormal = VZero THEN [num |-> 1, den |-> 4]
    ELSE [num |-> VDot(TriNormal(a, b, c), otherNormal),
          den |-> VDot(TriNormal(a, b, c), TriNormal(a, b, c))
                  * VDot(otherNormal, otherNormal)]

NoBest == [none |-> TRUE, score |-> [num |-> 1, den |-> 1], abc |-> <<>>]

\* The body of for (let cPos of [...]): "No degenerates", then
\* if (smallestScore > currentScore).
tryThird(pos, best, unconnectedEdge, cPos) ==
    IF \/ At(pos, cPos) = At(pos, nextPositionInFace(unconnectedEdge))
       \/ At(pos, cPos) = At(pos, unconnectedEdge)
    THEN best
    ELSE IF \/ best.none
            \/ ~CosLE(score(At(pos, nextPositionInFace(unconnectedEdge)),
                            At(pos, unconnectedEdge), At(pos, cPos),
                            faceNormal(pos, faceFromPosition(unconnectedEdge))),
                      best.score)
    THEN [none |-> FALSE,
          score |-> score(At(pos, nextPositionInFace(unconnectedEdge)),
                          At(pos, unconnectedEdge), At(pos, cPos),
                          faceNormal(pos, faceFromPosition(unconnectedEdge))),
          abc |-> <<nextPositionInFace(unconnectedEdge), unconnectedEdge, cPos>>]
    ELSE best

\* "Find the best new face to add to the object."
smallestABC(pos, unconnectedEdges) ==
    ForEach(LAMBDA b1, unconnectedEdge :
               ForEach(LAMBDA b2, unconnectedVertex :
                          tryThird(pos,
                                   tryThird(pos, b2, unconnectedEdge, unconnectedVertex),
                                   unconnectedEdge, nextPositionInFace(unconnectedVertex)),
                       b1, unconnectedEdges),
            NoBest, unconnectedEdges)

\* The body of for (let otherUnconnectedEdge of unconnectedEdges): an edge
\* deleted from the Set before its turn is not visited, and the loop has no
\* break.
connectOther(h, newUnconnectedEdge, otherUnconnectedEdge) ==
    IF /\ InSeq(otherUnconnectedEdge, h.unconnectedEdges)
       /\ canConnect(h.positions, newUnconnectedEdge, otherUnconnectedEdge)
    THEN [h EXCEPT
            !.neighbors = Put(Put(@, newUnconnectedEdge, otherUnconnectedEdge),
                              otherUnconnectedEdge, newUnconnectedEdge),
            !.unconnectedEdges = SeqRemove(SeqRemove(@, otherUnconnectedEdge),
                                           newUnconnectedEdge)]
    ELSE h

connectHoleEdge(h, newUnconnectedEdge) ==
    ForEach(LAMBDA s, other : connectOther(s, newUnconnectedEdge, other),
            h, h.unconnectedEdges)

\* setColors(colorsFromPositions(...), newPosition): colorsFromPositions
\* returns undefined when there are no colors, and for (let c of undefined)
\* throws.  With colors it copies the r, g, b of three Vector3: undefined.
setHoleColors(h) ==
    IF ~h.colors.present THEN [h EXCEPT !.threw = TRUE]
    ELSE [h EXCEPT !.colors.values = @ \o <<Undefined, Undefined, Undefined>>]

\* The rest of one turn of the while loop after setColors.
connectHoleFace(h, newPosition) ==
    IF h.threw THEN h
    ELSE [ForEach(connectHoleEdge,
                  [h EXCEPT !.unconnectedEdges =
                               @ \o <<newPosition, newPosition + 1, newPosition + 2>>],
                  <<newPosition, newPosition + 1, newPosition + 2>>)
          EXCEPT !.reverseIslands = Put(@, faceFromPosition(newPosition), Null),
                 !.added = @ + 1]

\* "Add the new face to the positions": vector3sFromPositions(null, ...)
\* throws when no face was found.
addHoleFace(h, best) ==
    IF best.none THEN [h EXCEPT !.threw = TRUE]
    ELSE connectHoleFace(
             setHoleColors([h EXCEPT !.positions = @ \o <<At(@, best.abc[1]),
                                                           At(@, best.abc[2]),
                                                           At(@, best.abc[3])>>]),
             Len(h.positions))

\* while (unconnectedEdges.size > 0) { ... }
RECURSIVE fixHolesLoop(_)
fixHolesLoop(h) ==
    IF h.threw \/ h.long \/ h.unconnectedEdges = <<>> THEN h
    ELSE IF h.added >= MaxFixFaces THEN [h EXCEPT !.long = TRUE]
    ELSE fixHolesLoop(addHoleFace(h, smallestABC(h.positions, h.unconnectedEdges)))

\* "Need to recreate all the islands."
recreateIslands(h) ==
    IF h.threw \/ h.long THEN h
    ELSE [h EXCEPT !.reverseIslands = computeIslands(h.positions, h.neighbors)]

\* fixHoles(), with island = null.
fixHoles(pos, nbrs, ri, colors) ==
    recreateIslands(fixHolesLoop(
        [positions |-> pos, neighbors |-> nbrs, reverseIslands |-> ri, colors |-> colors,
         unconnectedEdges |-> SelectSeq(Range0(Len(nbrs)),
                                        LAMBDA i : ~IsInteger(At(nbrs, i))),
         added |-> 0, threw |-> FALSE, long |-> FALSE]))

\* A mutator made by fromBufferGeometry from a geometry with or without the
\* attribute color; loop.st holds this.colors.
FixInit ==
    \E mesh \in Meshes, withColors \in BOOLEAN :
       \E f \in {findNeighbors(mesh)} :
          /\ f.ret
          /\ positions = mesh
          /\ neighbors = f.neighbors
          /\ reverseIslands = f.reverseIslands
          /\ loop = [at |-> "fixHoles", did |-> "none",
                     st |-> IF withColors THEN ColorsOf(mesh) ELSE NoColors]
          /\ built = "mutator"
          /\ lastOp = "fromBufferGeometry"
          /\ pre = [positions |-> <<>>, neighbors |-> <<>>, reverseIslands |-> <<>>]
          /\ ret = NoRet
          /\ opCount = 0

\* fixHoles(): ret.made holds the mutator as the call left it.
FixHoles ==
    /\ loop.at = "fixHoles"
    /\ loop.did = "none"
    /\ \E r \in {fixHoles(positions, neighbors, reverseIslands, loop.st)} :
          /\ positions' = r.positions
          /\ neighbors' = r.neighbors
          /\ reverseIslands' = r.reverseIslands
          /\ loop' = [loop EXCEPT !.did = "fixHoles", !.st = r.colors]
          /\ ret' = [NoRet EXCEPT !.made = <<r>>]
    /\ lastOp' = "fixHoles"
    /\ pre' = Snapshot
    /\ opCount' = opCount + 1
    /\ UNCHANGED built

FixNext == FixHoles

FixSpec == FixInit /\ [][FixNext]_vars

\* ------------------------------------------------------------------
\* BufferGeometryAnalyzer.isolatedGeometries, one step at a time
\* ------------------------------------------------------------------
\* The values of precisionPoints that callers pass: the default -1, and 0.
PrecisionPoints == {-1, 0}

\* One coordinate in the key: Math.round(v * Math.pow(10, precisionPoints))
\* if precisionPoints >= 0, and v itself otherwise.  v is an integer.
roundedAt(v, precisionPoints) ==
    IF precisionPoints >= 0 THEN v * (10 ^ precisionPoints) ELSE v

keyForTrio(pos, startIndex, precisionPoints) ==
    [k \in 1..3 |-> roundedAt(At(pos, startIndex)[k], precisionPoints)]

\* facePoints.size != 3
isFaceDegenerateByKey(pos, faceIndex, precisionPoints) ==
    \E i, j \in 0..2 :
       /\ i < j
       /\ keyForTrio(pos, positionFromFaceEdge(faceIndex, i), precisionPoints)
          = keyForTrio(pos, positionFromFaceEdge(faceIndex, j), precisionPoints)

\* The test of the loop over vertexPosMap[key], which holds the positions
\* with the key of posIndex in increasing order.
isCandidateByKey(pos, posIndex, newPosIndex, precisionPoints) ==
    /\ keyForTrio(pos, newPosIndex, precisionPoints)
       = keyForTrio(pos, posIndex, precisionPoints)
    /\ keyForTrio(pos, nextPositionInFace(posIndex), precisionPoints)
       = keyForTrio(pos, previousPositionInFace(newPosIndex), precisionPoints)
    /\ ~isFaceDegenerateByKey(pos, faceFromPosition(newPosIndex), precisionPoints)

possibleNeighborsByKey(pos, posIndex, precisionPoints) ==
    IF isFaceDegenerateByKey(pos, faceFromPosition(posIndex), precisionPoints) THEN <<>>
    ELSE candidatesFrom(pos, posIndex,
             SelectSeq(Range0(Len(pos)),
                       LAMBDA newPosIndex :
                          isCandidateByKey(pos, posIndex, newPosIndex, precisionPoints)))

\* The faces array and unconnectedEdges before the while loop.
analyzerInit(pos, precisionPoints) ==
    [ pn     |-> [p \in 0..(3 * FaceCount(pos) - 1) |->
                     possibleNeighborsByKey(pos, p, precisionPoints)],
      nb     |-> [p \in 0..(3 * FaceCount(pos) - 1) |-> Null],
      island |-> [f \in 0..(FaceCount(pos) - 1) |->
                     IF isFaceDegenerateByKey(pos, f, precisionPoints) THEN Null ELSE f],
      rank   |-> [f \in 0..(FaceCount(pos) - 1) |->
                     IF isFaceDegenerateByKey(pos, f, precisionPoints) THEN Null ELSE 0],
      un     |-> SelectSeq(Range0(3 * FaceCount(pos)),
                     LAMBDA posIndex :
                        ~isFaceDegenerateByKey(pos, faceFromPosition(posIndex),
                                               precisionPoints)),
      foundOne |-> FALSE,
      nonManifold |-> FALSE ]

\* calculateFrontier(islandIndex): the faces reached from the root through
\* neighbors, and their edges without a neighbor, in the order of the visit.
RECURSIVE visit(_, _, _)
RECURSIVE visitEdges(_, _, _, _)
visit(st, v, faceIndex) ==
    IF faceIndex \in v.visitedFaces THEN v
    ELSE visitEdges(st, [v EXCEPT !.visitedFaces = @ \cup {faceIndex}], faceIndex, 0)

visitEdges(st, v, faceIndex, edgeIndex) ==
    IF edgeIndex > 2 THEN v
    ELSE visitEdges(st,
             IF st.nb[positionFromFaceEdge(faceIndex, edgeIndex)] = Null
             THEN [v EXCEPT !.frontier = @ \o <<positionFromFaceEdge(faceIndex, edgeIndex)>>]
             ELSE visit(st, v,
                        faceFromPosition(st.nb[positionFromFaceEdge(faceIndex, edgeIndex)])),
             faceIndex, edgeIndex + 1)

calculateFrontier(st, islandIndex) ==
    visit(st, [visitedFaces |-> {}, frontier |-> <<>>], islandIndex).frontier

\* The first candidate of an edge that is on the frontier.
RECURSIVE firstOnFrontier(_, _)
firstOnFrontier(cands, frontier) ==
    IF cands = <<>> THEN Null
    ELSE IF InSeq(Head(cands), frontier) THEN Head(cands)
    ELSE firstOnFrontier(Tail(cands), frontier)

\* "Two frontier edges that can be connected": connectEdge clears the map
\* that is iterated, which ends the iteration.
connectOnFrontier(st, frontier) ==
    ForEach(LAMBDA s, posIndex :
               connectIfFound(s, posIndex, firstOnFrontier(s.pn[posIndex], frontier)),
            st, frontier)

\* The body of the loop over unconnectedEdges in the second step.
joinFrontier(b, posIndex) ==
    IF ~InSeq(posIndex, b.st.un) THEN b
    ELSE IF findIsland(b.st.island, faceFromPosition(posIndex)) \in b.visitedIslands THEN b
    ELSE [st |-> connectOnFrontier(b.st,
                     calculateFrontier(b.st, findIsland(b.st.island,
                                                        faceFromPosition(posIndex)))),
          visitedIslands |-> b.visitedIslands
                             \cup {findIsland(b.st.island, faceFromPosition(posIndex))}]

joinFrontiers(st) ==
    ForEach(joinFrontier, [st |-> st, visitedIslands |-> {}], st.un).st

\* if (Math.abs(Math.PI - angle) > worstAngle): the angle between the
\* normals is larger than the largest so far; NaN is never larger.
sharper(angle, worst) ==
    /\ ~angle.nan
    /\ worst.none \/ ~CosLE(worst.angle, angle)

sharpest(pos, st) ==
    ForEach(LAMBDA w1, posIndex :
               ForEach(LAMBDA w2, otherPosIndex :
                          IF sharper(facesAngle(pos, posIndex,
                                                nextPositionInFace(otherPosIndex)), w2)
                          THEN [none |-> FALSE,
                                angle |-> facesAngle(pos, posIndex,
                                                     nextPositionInFace(otherPosIndex)),
                                pos |-> posIndex, otherPos |-> otherPosIndex]
                          ELSE w2,
                       w1, st.pn[posIndex]),
            NoWorst, st.un)

\* isolatedGeometries(geometry, precisionPoints) is about to test the
\* condition of its while loop.
AnalyzerInit ==
    /\ positions \in Meshes
    /\ neighbors = <<>>
    /\ reverseIslands = <<>>
    /\ built = "none"
    /\ lastOp = "isolatedGeometries"
    /\ pre = [positions |-> <<>>, neighbors |-> <<>>, reverseIslands |-> <<>>]
    /\ ret = NoRet
    /\ opCount = 0
    /\ \E precisionPoints \in PrecisionPoints :
          loop = [at |-> "while", did |-> "init",
                  st |-> analyzerInit(positions, precisionPoints)]

\* while (unconnectedEdges.size > 0) { let foundOne = false;
AnalyzerTest ==
    /\ loop.at = "while"
    /\ loop' = IF loop.st.un = <<>>
               THEN [at |-> "islands", did |-> "while", st |-> loop.st]
               ELSE [at |-> "a", did |-> "while",
                     st |-> [loop.st EXCEPT !.foundOne = FALSE]]
    /\ UNCHANGED <<positions, neighbors, reverseIslands, built, lastOp, pre, ret, opCount>>

\* "Connect all edges that have just one neighbor."
AnalyzerSingles ==
    /\ loop.at = "a"
    /\ \E st \in {loop.st} : \E s \in {connectSingles(st, st.un)} :
          loop' = [at |-> IF s.foundOne THEN "while" ELSE "b", did |-> "a", st |-> s]
    /\ UNCHANGED <<positions, neighbors, reverseIslands, built, lastOp, pre, ret, opCount>>

\* "Try to join faces that are on the frontier of an island."
AnalyzerFrontier ==
    /\ loop.at = "b"
    /\ \E s \in {joinFrontiers(loop.st)} :
          loop' = [at |-> IF s.foundOne THEN "while" ELSE "c", did |-> "b", st |-> s]
    /\ UNCHANGED <<positions, neighbors, reverseIslands, built, lastOp, pre, ret, opCount>>

\* "Get rid of the worst possibleNeighbor", if there is one; the end of the
\* body of the while loop.
AnalyzerWorst ==
    /\ loop.at = "c"
    /\ \E worst \in {sharpest(positions, loop.st)} :
          loop' = [at |-> "while", did |-> "c",
                   st |-> IF worst.none THEN loop.st
                          ELSE removeCandidate(loop.st, worst)]
    /\ UNCHANGED <<positions, neighbors, reverseIslands, built, lastOp, pre, ret, opCount>>

\* "All done, now get all the islands."
AnalyzerIslands ==
    /\ loop.at = "islands"
    /\ reverseIslands' = [k \in 1..FaceCount(positions) |->
                             findIsland(loop.st.island, k - 1)]
    /\ loop' = [at |-> "done", did |-> "islands", st |-> loop.st]
    /\ UNCHANGED <<positions, neighbors, built, lastOp, pre, ret, opCount>>

AnalyzerNext ==
    \/ AnalyzerTest
    \/ AnalyzerSingles
    \/ AnalyzerFrontier
    \/ AnalyzerWorst
    \/ AnalyzerIslands

AnalyzerSpec == AnalyzerInit /\ [][AnalyzerNext]_vars

\* ------------------------------------------------------------------
\* Properties
\* ------------------------------------------------------------------
Slots(nbrs) == 0..(Len(nbrs) - 1)

\* Every resolved slot is answered by the slot it points to.
Symmetric(nbrs) ==
    \A e \in Slots(nbrs) : IsInteger(At(nbrs, e)) => At(nbrs, At(nbrs, e)) = e

\* Every slot is resolved.
Watertight(nbrs) == \A e \in Slots(nbrs) : IsInteger(At(nbrs, e))

\* Some edge of a non-degenerate face has no neighbor.
NonDegenerateOpen(pos, nbrs) ==
    \E e \in Slots(nbrs) :
       /\ ~isFaceDegenerate(pos, faceFromPosition(e))
       /\ ~IsInteger(At(nbrs, e))

\* The segment a..b has its endpoints strictly on opposite sides of the plane.
Crosses(plane, a, b) == distanceToPoint(plane, a) * distanceToPoint(plane, b) < 0

SomeEdgeCrosses(plane, pos) ==
    \E e \in 0..(Len(pos) - 1) :
       Crosses(plane, At(pos, e), At(pos, nextPositionInFace(e)))

\* The distinct island roots stored in reverseIslands.
Roots(ri) == { At(ri, f) : f \in { g \in 0..(Len(ri) - 1) : IsInteger(At(ri, g)) } }

\* The root of a face; null and a missing entry both mean "no island".
RootOf(ri, f) == IF IsInteger(At(ri, f)) THEN At(ri, f) ELSE Null

\* C1: after findNeighbors has run (directly or inside fromBufferGeometry),
\* every slot e that holds a face-edge f is answered: slot f holds e.
C1_NeighborsSymmetric ==
    lastOp \in {"fromBufferGeometry", "findNeighbors"} => Symmetric(neighbors)

\* findNeighbors ran on a mutator whose array was one-directional somewhere
\* and left resolved slots behind.
C1_Witness ==
    /\ lastOp = "findNeighbors"
    /\ ~Symmetric(pre.neighbors)
    /\ \E e \in Slots(neighbors) : IsInteger(At(neighbors, e))

\* C2, for splitFaces: applied to a mesh whose Neighbor array is symmetric,
\* the operation returns with a symmetric Neighbor array.
C2_SymmetryPreserved ==
    (lastOp = "splitFaces" /\ Symmetric(pre.neighbors)) => Symmetric(neighbors)

\* C3: for a watertight mesh whose Neighbor array is the one findNeighbors
\* computes, the array left by splitFaces equals, slot for slot, the array
\* findNeighbors computes from the positions splitFaces produced.
C3_SplitMatchesFindNeighbors ==
    ( /\ lastOp = "splitFaces"
      /\ Watertight(pre.neighbors)
      /\ pre.neighbors = findNeighbors(pre.positions).neighbors )
    => neighbors = findNeighbors(positions).neighbors

C5_TwoFacesPerCrossing ==
    lastOp = "splitFaces" =>
       FaceCount(positions) = FaceCount(pre.positions) + 2 * ret.crossings

\* C5 (amended): a crossing on an edge without a neighbor adds one face
\* only, so with K crossings of which B are on such edges the face count
\* grows by 2K - B.
C5_FacesPerCrossing ==
    lastOp = "splitFaces" =>
       FaceCount(positions) =
          FaceCount(pre.positions) + 2 * ret.crossings - ret.boundary

\* splitFaces resolved crossings both on shared edges and on edges
\* without a neighbor.
C5_Witness ==
    /\ lastOp = "splitFaces"
    /\ ret.boundary >= 1
    /\ ret.crossings > ret.boundary

\* C6: after splitFaces(plane) no face-edge, of an old or of an appended
\* face, has its endpoints strictly on opposite sides of the plane.
C6_NoEdgeCrossesPlane ==
    lastOp = "splitFaces" => ~SomeEdgeCrosses(ret.plane, positions)

\* splitFaces was applied to a mesh with crossing edges and appended faces.
C6_Witness ==
    /\ lastOp = "splitFaces"
    /\ SomeEdgeCrosses(ret.plane, pre.positions)
    /\ ret.crossings >= 2
    /\ Len(positions) > Len(pre.positions)

\* C7: splitFaces leaves the number of distinct roots in reverseIslands
\* unchanged.
C7_IslandCountKept ==
    lastOp = "splitFaces" =>
       Cardinality(Roots(reverseIslands)) = Cardinality(Roots(pre.reverseIslands))

\* splitFaces appended faces to a mesh of more than one island.
C7_Witness ==
    /\ lastOp = "splitFaces"
    /\ ret.crossings >= 1
    /\ Len(reverseIslands) > Len(pre.reverseIslands)
    /\ Cardinality(Roots(pre.reverseIslands)) >= 2

\* C8: every face of the position array that has two equal vertices has
\* no island root in reverseIslands.
C8_DegenerateHasNoRoot ==
    \A f \in 0..(FaceCount(positions) - 1) :
       isFaceDegenerate(positions, f) => ~IsInteger(At(reverseIslands, f))

\* C9: on return from every operation, two faces linked by the Neighbor
\* array have the same reverseIslands root (hence also faces linked
\* through a chain).
C9_LinkedFacesShareRoot ==
    \A e \in Slots(neighbors) :
       IsInteger(At(neighbors, e)) =>
          RootOf(reverseIslands, faceFromPosition(e)) =
             RootOf(reverseIslands, faceFromPosition(At(neighbors, e)))

\* C10: on return from findNeighbors and from every mutating operation,
\* neighbors has 3 entries per face and reverseIslands 1 entry per face.
C10_ArrayLengths ==
    lastOp # "constructor" =>
       /\ Len(neighbors) = 3 * FaceCount(positions)
       /\ Len(reverseIslands) = FaceCount(positions)

\* removeDegenerates(range(faceCount)) applied to the given arrays.
removeDegeneratesOn(pos, nbrs, ri) ==
    removeDegeneratesLoop(
        [positions |-> pos, neighbors |-> nbrs, reverseIslands |-> ri,
         removed |-> 0, rotated |-> 0, openRotated |-> 0, out |-> FALSE],
        Range0(FaceCount(pos)), MaxPasses)

\* The call removed nothing and left the three arrays as they are.
IsNoOp(r) ==
    /\ r.removed = 0
    /\ r.positions = positions
    /\ r.neighbors = neighbors
    /\ r.reverseIslands = reverseIslands

\* C11: right after deleteDegenerates (removeDegenerates) has returned, a
\* second call of the same operation removes no face and changes none of
\* positions, neighbors, reverseIslands.
C11_RemovalIdempotent ==
    /\ lastOp = "deleteDegenerates" =>
          IsNoOp(deleteDegenerates(positions, neighbors, reverseIslands))
    /\ lastOp = "removeDegenerates" =>
          IsNoOp(removeDegeneratesOn(positions, neighbors, reverseIslands))

\* The first call did remove faces: deleteDegenerates dropped some, or
\* removeDegenerates needed both a zero-edge removal and a rotation.
C11_Witness ==
    \/ lastOp = "deleteDegenerates" /\ ret.removed >= 1
          /\ Len(positions) < Len(pre.positions) /\ Len(positions) > 0
    \/ lastOp = "removeDegenerates" /\ ret.rotated >= 1 /\ ret.removed > ret.rotated

\* A face survives deleteDegenerates when its root is an integer.
Survives(ri, f) == IsInteger(At(ri, f))

\* Where a slot of a surviving face is after the faces without a root
\* before it are dropped.
Renumbered(ri, e) ==
    3 * Cardinality({ g \in 0..(faceFromPosition(e) - 1) : Survives(ri, g) })
       + edgeFromPosition(e)

\* The slots of the surviving faces, before the call.
SurvivingSlots(old) ==
    { e \in Slots(old.neighbors) : Survives(old.reverseIslands, faceFromPosition(e)) }

\* e and its neighbor are slots of surviving faces and point to each other.
SurvivingPair(old, e) ==
    /\ IsInteger(At(old.neighbors, e))
    /\ At(old.neighbors, e) \in SurvivingSlots(old)
    /\ At(old.neighbors, At(old.neighbors, e)) = e

\* C12: deleteDegenerates keeps every pair of mutually linked slots of
\* surviving faces linked under the new numbering, and a slot of a
\* surviving face ends without a neighbor only if it had none or its
\* neighbor was not a slot of a surviving face.
C12_SurvivingLinksKept ==
    lastOp = "deleteDegenerates" =>
       \A e \in SurvivingSlots(pre) :
          /\ SurvivingPair(pre, e) =>
                At(neighbors, Renumbered(pre.reverseIslands, e)) =
                   Renumbered(pre.reverseIslands, At(pre.neighbors, e))
          /\ ~IsInteger(At(neighbors, Renumbered(pre.reverseIslands, e))) =>
                \/ ~IsInteger(At(pre.neighbors, e))
                \/ At(pre.neighbors, e) \notin SurvivingSlots(pre)

\* deleteDegenerates dropped a face that came before two linked surviving
\* faces, so their slots were renumbered.
C12_Witness ==
    /\ lastOp = "deleteDegenerates"
    /\ ret.removed >= 1
    /\ \E e \in SurvivingSlots(pre) :
          /\ SurvivingPair(pre, e)
          /\ Renumbered(pre.reverseIslands, e) # e
          /\ Renumbered(pre.reverseIslands, At(pre.neighbors, e)) # At(pre.neighbors, e)

\* The face with these three corners, in this order, is in the position array.
HasFace(pos, a, b, c) ==
    \E g \in 0..(FaceCount(pos) - 1) :
       /\ At(pos, 3 * g) = a
       /\ At(pos, 3 * g + 1) = b
       /\ At(pos, 3 * g + 2) = c

\* Face f has a root and its three vertices are on the plane.
LiveFaceInPlane(plane, f) ==
    /\ Survives(reverseIslands, f)
    /\ \A i \in 0..2 : distanceToPoint(plane, At(positions, 3 * f + i)) = 0

\* C13: after disconnectAtSplit, a face of the source whose three vertices
\* lie on the plane is a face of the negative-side mutator and of the
\* positive-side mutator.
C13_InPlaneFaceInBothHalves ==
    lastOp = "disconnectAtSplit" =>
       \A f \in 0..(FaceCount(positions) - 1) :
          LiveFaceInPlane(ret.plane, f) =>
             \A side \in 1..2 :
                HasFace(ret.made[side].positions, At(positions, 3 * f),
                        At(positions, 3 * f + 1), At(positions, 3 * f + 2))

\* C15: mergeFaces leaves the number of distinct roots in reverseIslands
\* as it was.
C15_MergeKeepsIslandCount ==
    lastOp = "mergeFaces" =>
       Cardinality(Roots(reverseIslands)) = Cardinality(Roots(pre.reverseIslands))

\* The face faceIndex as its three corners in order.
FaceTrio(pos, faceIndex) ==
    <<At(pos, 3 * faceIndex), At(pos, 3 * faceIndex + 1), At(pos, 3 * faceIndex + 2)>>

\* Which of the two tetrahedra a face of a SharedFace mesh belongs to: the
\* one with the apex PD, whose copy of the shared face has the winding of
\* the first face of the mesh, or the other one.
HasApexPD(trio) == \E k \in 1..3 : trio[k] = PD
HasApexPG(trio) == \E k \in 1..3 : trio[k] = PG
FirstBaseOf(pos) ==
    CHOOSE f \in 0..(FaceCount(pos) - 1) :
        /\ ~HasApexPD(FaceTrio(pos, f)) /\ ~HasApexPG(FaceTrio(pos, f))
        /\ \A g \in 0..(f - 1) : HasApexPD(FaceTrio(pos, g)) \/ HasApexPG(FaceTrio(pos, g))
InUpperSolid(pos, f) ==
    \/ HasApexPD(FaceTrio(pos, f))
    \/ ~HasApexPG(FaceTrio(pos, f)) /\ f = FirstBaseOf(pos)

\* C16: two tetrahedra that share one face come out of findNeighbors as
\* exactly two islands, each tetrahedron closed on its own with no link to
\* the other.
C16_SharedFaceTwoIslands ==
    lastOp = "fromBufferGeometry" /\ positions \in SharedFace =>
       /\ Cardinality(Roots(reverseIslands)) = 2
       /\ Watertight(neighbors)
       /\ \A e \in Slots(neighbors) :
             InUpperSolid(positions, faceFromPosition(e))
                = InUpperSolid(positions, faceFromPosition(neighbors[e + 1]))

C16_Witness ==
    /\ lastOp = "fromBufferGeometry"
    /\ positions \in SharedFace
    /\ Watertight(neighbors)
    /\ Cardinality(Roots(reverseIslands)) = 2

\* C17: the number of islands that findNeighbors finds does not depend on
\* the order in which the faces are given.
C17_FaceOrderIrrelevant ==
    lastOp = "fromBufferGeometry" =>
       \A order \in FaceOrders(FaceCount(positions)) :
          Cardinality(Roots(findNeighbors(PermuteFaces(positions, order)).reverseIslands))
             = Cardinality(Roots(reverseIslands))

OpenEdges(st) == Len(st.un)
Candidates(st) ==
    Cardinality({ pk \in (DOMAIN st.pn) \X (1..Cardinality(DOMAIN st.pn)) :
                     pk[2] <= Len(st.pn[pk[1]]) })

\* One iteration of the loop: steps (a) and (b) go back to the loop test only
\* after connecting at least one pair of edges and fall through without
\* changing anything; step (c) removes one candidate pair or leaves the loop.
C19_Iteration ==
    /\ loop.at \in {"a", "b"} /\ loop'.at = "while" =>
          /\ OpenEdges(loop'.st) <= OpenEdges(loop.st) - 2
          /\ Candidates(loop'.st) <= Candidates(loop.st)
    /\ loop.at \in {"a", "b"} /\ loop'.at # "while" => loop'.st = loop.st
    /\ loop.at = "c" =>
          \/ loop'.at = "save"
          \/ /\ OpenEdges(loop'.st) = OpenEdges(loop.st)
             /\ Candidates(loop'.st) = Candidates(loop.st) - 2

\* C19: the resolution loop of findNeighbors terminates: every iteration
\* connects at least one pair of edges, removes one candidate pair or leaves
\* the loop, and findNeighbors returns in the end.
C19_LoopTerminates ==
    [][C19_Iteration]_vars /\ <>(loop.at = "done")

\* The loop goes on after an iteration that removed a candidate pair, with
\* pairs of edges connected by earlier iterations.
C19_Witness ==
    /\ loop.at = "while"
    /\ loop.did = "c"
    /\ loop.st.un # <<>>
    /\ OpenEdges(loop.st) < Len(unconnectedInit(positions))

\* C20: step (b) connects only face-edges that were open, each to a
\* face-edge of its own island, so that no two islands are merged by it.
C20_StepBWithinIsland ==
    [][loop.at = "b" =>
         /\ \A p \in DOMAIN loop.st.nb :
               loop'.st.nb[p] # loop.st.nb[p] =>
                  /\ loop.st.nb[p] = Null
                  /\ InSeq(p, loop.st.un)
                  /\ findIsland(loop.st.island, faceFromPosition(p))
                       = findIsland(loop.st.island, faceFromPosition(loop'.st.nb[p]))
         /\ \A f \in DOMAIN loop.st.island :
               findIsland(loop'.st.island, f) = findIsland(loop.st.island, f)]_vars

\* Step (b) has just connected a pair of edges.
C20_Witness ==
    /\ loop.at = "while"
    /\ loop.did = "b"
    /\ loop.st.foundOne

\* Every edge of every face of a mutator has a neighbor.
AllResolved(m) ==
    \A e \in 0..(Len(m.positions) - 1) : IsInteger(At(m.neighbors, e))

\* C14: chop(plane) of a watertight mesh returns two mutators in which every
\* edge of every face has a resolved neighbor.
C14_ChopHalvesWatertight ==
    /\ lastOp = "chop"
    /\ pre.positions # <<>>
    /\ Watertight(pre.neighbors) /\ Symmetric(pre.neighbors)
    => \A k \in 1..2 :
          /\ ~ret.made[k].threw
          /\ ~ret.made[k].hangs
          /\ AllResolved(ret.made[k])

\* The dihedral angle that step (c) computes for the candidate pair of the
\* open edge posIndex and its candidate otherPosIndex.
PairAngle(posIndex, otherPosIndex) ==
    facesAngle(positions, posIndex, nextPositionInFace(otherPosIndex))

\* Angle a is at least as far from pi as angle b: |pi - angle| is the angle
\* between the two normals.  An angle that is not a number is not compared.
AsFarFromPi(a, b) == a.nan \/ b.nan \/ CosLE(a, b)

\* The candidate pairs of all open edges.
CandidatePairs(st) ==
    { pq \in (DOMAIN st.pn) \X (DOMAIN st.pn) :
         InSeq(pq[1], st.un) /\ InSeq(pq[2], st.pn[pq[1]]) }

\* Step (c) took exactly the pair pq out of the possibleNeighbors maps.
RemovedPair(before, after, pq) ==
    /\ after.pn = [before.pn EXCEPT ![pq[1]] = SeqRemove(@, pq[2]),
                                    ![pq[2]] = SeqRemove(@, pq[1])]
    /\ after.nb = before.nb
    /\ after.un = before.un

\* C21: when step (c) removes a candidate pair, it removes one pair only,
\* and that pair is, among the candidate pairs of all open edges, one whose
\* dihedral angle is farthest from pi (closest to 0 or 2 pi).
C21_StepCRemovesWorst ==
    [][loop.at = "c" /\ loop'.at = "while" =>
         \E pq \in CandidatePairs(loop.st) :
            /\ RemovedPair(loop.st, loop'.st, pq)
            /\ \A other \in CandidatePairs(loop.st) :
                  AsFarFromPi(PairAngle(pq[1], pq[2]), PairAngle(other[1], other[2]))]_vars

\* C21 as the code has it: when step (c) removes a candidate pair, it
\* removes one pair only, and no candidate pair of an open edge has a larger
\* dihedral angle than the removed one, unless the removed pair's angle is
\* within EPSILON of 0 or 2 pi or is not a number.
C21_StepCRemovesLargest ==
    [][loop.at = "c" /\ loop'.at = "while" =>
         \E pq \in CandidatePairs(loop.st) :
            /\ RemovedPair(loop.st, loop'.st, pq)
            /\ \/ NearFold(PairAngle(pq[1], pq[2]))
               \/ PairAngle(pq[1], pq[2]).nan
               \/ \A other \in CandidatePairs(loop.st) :
                     ~AngleGT(PairAngle(other[1], other[2]), PairAngle(pq[1], pq[2]))]_vars

\* Step (c) has removed one of the four candidate pairs of a wedge, whose
\* angles are all different and away from 0 and 2 pi.
C21_Witness ==
    /\ loop.at = "while"
    /\ loop.did = "c"
    /\ positions \in Wedges
    /\ Candidates(loop.st) = Candidates(findNeighborsInit(positions)) - 2
    /\ \A pq \in CandidatePairs(findNeighborsInit(positions)) :
          ~NearFold(PairAngle(pq[1], pq[2])) /\ ~PairAngle(pq[1], pq[2]).nan

\* findNeighbors() has just returned (fromBufferGeometry ends with it).
AfterFindNeighbors == lastOp \in {"fromBufferGeometry", "findNeighbors"}

\* C22: after findNeighbors, a face with two equal vertices has no neighbor
\* in any of its three slots and no root in reverseIslands, and no slot of
\* any face refers to one of its edges.
C22_DegenerateTakesNoPart ==
    AfterFindNeighbors =>
       \A f \in 0..(FaceCount(positions) - 1) :
          isFaceDegenerate(positions, f) =>
             /\ \A edgeIndex \in 0..2 :
                   ~IsInteger(At(neighbors, positionFromFaceEdge(f, edgeIndex)))
             /\ ~IsInteger(At(reverseIslands, f))
             /\ \A e \in Slots(neighbors) :
                   IsInteger(At(neighbors, e)) => faceFromPosition(At(neighbors, e)) # f

\* findNeighbors has connected faces of a mesh that has a degenerate face
\* on an edge of one of them.
C22_Witness ==
    /\ AfterFindNeighbors
    /\ \E f \in 0..(FaceCount(positions) - 1) :
          /\ isFaceDegenerate(positions, f)
          /\ \E e \in Slots(neighbors) :
                /\ IsInteger(At(neighbors, e))
                /\ \E edgeIndex \in 0..2 :
                      isCandidateAnyFace(positions, e,
                          nextPositionInFace(positionFromFaceEdge(f, edgeIndex)))

\* Every root stored in reverseIslands is the index of a face of the mesh
\* that carries that same root.
RootsAreFaces(pos, ri) ==
    \A f \in 0..(FaceCount(pos) - 1) :
       IsInteger(At(ri, f)) =>
          /\ At(ri, f) < FaceCount(pos)
          /\ At(ri, At(ri, f)) = At(ri, f)

\* C23: deleteDegenerates remaps the island roots: when every root was the
\* index of a face of its island before the call, then after the call every
\* reverseIslands entry is the index of a face of the compacted mesh that
\* belongs to the island it labels.
C23_RootsRemapped ==
    /\ lastOp = "deleteDegenerates"
    /\ RootsAreFaces(pre.positions, pre.reverseIslands)
    => /\ \A f \in 0..(FaceCount(positions) - 1) : IsInteger(At(reverseIslands, f))
       /\ RootsAreFaces(positions, reverseIslands)

\* Two slots hold the same neighbor, or both hold no neighbor.
SameLink(a, b) == a = b \/ (~IsInteger(a) /\ ~IsInteger(b))

\* The body of the loop of the 0 degree pass has just run on the face
\* ret.face, which had a root and whose edge edgeIndex had no length.
ZeroEdgeRemoved(edgeIndex) ==
    /\ loop.did = "face"
    /\ IsInteger(At(pre.reverseIslands, ret.face))
    /\ equalTrios(pre.positions, positionFromFaceEdge(ret.face, edgeIndex),
                  nextPositionInFace(positionFromFaceEdge(ret.face, edgeIndex)))

\* The neighbors, before the removal, of the two other edges of the face.
FlankOf(edgeIndex, k) ==
    At(pre.neighbors, positionFromFaceEdge(ret.face, (edgeIndex + k) % 3))

\* C24: when the 0 degree pass removes a face with an edge of no length, the
\* neighbors of its two other edges become each other's neighbors (a side
\* gets no neighbor when the other edge had none), and the face loses its
\* root.
C24_ZeroEdgeSpliced ==
    \A edgeIndex \in 0..2 :
       ZeroEdgeRemoved(edgeIndex) =>
          /\ IsInteger(FlankOf(edgeIndex, 1)) =>
                SameLink(At(neighbors, FlankOf(edgeIndex, 1)), FlankOf(edgeIndex, 2))
          /\ IsInteger(FlankOf(edgeIndex, 2)) =>
                SameLink(At(neighbors, FlankOf(edgeIndex, 2)), FlankOf(edgeIndex, 1))
          /\ ~IsInteger(At(reverseIslands, ret.face))
          /\ ret.removed >= 1

\* A face between two other faces has been removed: both of its other edges
\* had a neighbor in another face.
C24_Witness ==
    \E edgeIndex \in 0..2 :
       /\ ZeroEdgeRemoved(edgeIndex)
       /\ IsInteger(FlankOf(edgeIndex, 1))
       /\ IsInteger(FlankOf(edgeIndex, 2))
       /\ faceFromPosition(FlankOf(edgeIndex, 1)) # ret.face
       /\ faceFromPosition(FlankOf(edgeIndex, 2)) # ret.face
       /\ At(pre.neighbors, FlankOf(edgeIndex, 1)) # At(neighbors, FlankOf(edgeIndex, 1))

\* C25: removeDegenerates180Angle applies rotateEdge only to a face-edge that
\* has a neighbor: no rotation of removeDegenerates was made on an edge whose
\* slot holds no neighbor.
C25_RotateOnlyLinked ==
    lastOp = "removeDegenerates" => ret.openRotated = 0

\* fixPlanarHole has returned in mutator m for one of the reasons the code
\* has: the map of edges is empty, or no convex hull edge is found.
ReturnedFromFix(m) ==
    \/ m.em.keys = <<>>
    \/ noHullCandidate(m.positions, m.em)
    \/ ~IsInteger(findConvexHullSplitEdge(m.positions, m.em, m.order))

\* C26: fixPlanarHole terminates on the maps that findEdgesInPlane makes in
\* chop: no turn of its outer loop leaves the mutator as it was, no call adds
\* more than MaxHoleFaces faces, and when it returns the map of edges is empty
\* or has no convex hull edge.
C26_FixPlanarHoleTerminates ==
    lastOp = "chop" =>
       \A k \in 1..2 :
          /\ ~ret.made[k].hangs
          /\ ~ret.made[k].long
          /\ ~ret.made[k].threw
          /\ ReturnedFromFix(ret.made[k])

\* chop has called fixPlanarHole in both halves, and one call went through
\* its outer loop more than once before the map was empty.
C26_Witness ==
    /\ lastOp = "chop"
    /\ \A k \in 1..2 : ret.made[k].fixed >= 1 /\ ret.made[k].em.keys = <<>>
    /\ \E k \in 1..2 : ret.made[k].fixed >= 2

\* C27: in the planar-hole repair of chop no face is added for a colinear
\* candidate triangle.
C27_NoColinearFace ==
    lastOp = "chop" => \A k \in 1..2 : ret.made[k].colinear = 0

HasOpenEdge(nbrs) == \E i \in Slots(nbrs) : ~IsInteger(At(nbrs, i))

\* C28: fixHoles on a mutator without colors and with an open edge ends
\* without an error, with the positions and neighbors that it makes of the
\* same mutator with colors.
C28_FixHolesWithoutColors ==
    (/\ lastOp = "fixHoles"
     /\ ~loop.st.present
     /\ HasOpenEdge(pre.neighbors))
    => /\ ~ret.made[1].threw
       /\ positions = fixHoles(pre.positions, pre.neighbors, pre.reverseIslands,
                               ColorsOf(pre.positions)).positions
       /\ neighbors = fixHoles(pre.positions, pre.neighbors, pre.reverseIslands,
                               ColorsOf(pre.positions)).neighbors

\* C29: isolatedGeometries of BufferGeometryAnalyzer returns for every
\* triangle soup: a pass of its while loop that connects no edge removes a
\* candidate pair.  (A pass that connects and removes nothing ends in the
\* state it began in, with an open edge left, and the loop repeats it for
\* ever.)
C29_AnalyzerTerminates ==
    [][loop.at = "c" => loop'.st # loop.st]_vars

\* The face-edge at posIndex has been connected in the state st of
\* findNeighbors.
Connected(st, posIndex) == st.nb[posIndex] # Null

\* C30: in findNeighbors a connected face-edge has no possible neighbor, is
\* the possible neighbor of no edge, and keeps its neighbor in every later
\* step.
C30_ConnectedOnce ==
    [][\A p \in DOMAIN loop.st.nb :
          /\ Connected(loop.st, p) => loop'.st.nb[p] = loop.st.nb[p]
          /\ Connected(loop'.st, p) =>
                /\ loop'.st.pn[p] = <<>>
                /\ \A q \in DOMAIN loop'.st.pn : ~InSeq(p, loop'.st.pn[q])]_vars

\* A pair was removed in step (c) while an edge is already connected, and
\* edges are still open: steps are taken after connectEdge.
C30_Witness ==
    /\ loop.did = "c"
    /\ loop.at = "while"
    /\ loop.st.un # <<>>
    /\ \E p \in DOMAIN loop.st.nb : Connected(loop.st, p)

====
